---- MODULE Spec2Model ----
(***************************************************************************)
(* Model of the collision_sounds add-on's detection engine                 *)
(* (src/collision_sounds/detection.py): the sequential frame scan of       *)
(* detect_collisions (pass 1), the sub-frame refinement of _refine_events  *)
(* and _bisect_onset (pass 2), and the external scene evaluator they       *)
(* sample.                                                                 *)
(*                                                                         *)
(* Numbers.  Frame times are integers counted in FrameUnit-ths of a frame, *)
(* FrameUnit = 40000 * substeps, so that every time the code computes is   *)
(* exact: the bisection midpoints (64ths), round(x, 4) (10000ths) and the *)
(* half step 0.5 / substeps.  Lengths and velocities are integers counted  *)
(* in millionths; round(x, 4) on them is rounding to a multiple of 100.    *)
(* Seconds are counted in millionths too (round(x, 6) is rounding to an    *)
(* integer).  Vectors are modelled by their component along the axis of    *)
(* motion, so that Vector.length is the absolute value.                    *)
(***************************************************************************)
EXTENDS Integers, Sequences, FiniteSets, TLC

VARIABLES
    scene,            \* frame_start, frame_end, fps, frame_current, subframe
    settings,         \* precision_mode, substeps, targets_collection,
                      \* colliders_collection, events, export_json, output_path
    geom,             \* evaluator: the geometry profile of every object
    rigid_body,       \* per object: NoBody or its collision_margin
    pc,               \* position in detect_collisions / _refine_events
    frame,            \* loop variable of pass 1
    pairIdx,          \* index of the next pair of the inner loop of pass 1
    was_in_contact,   \* detection.py:43
    prev_positions,   \* detection.py:44 (NoDict before the first frame)
    cur_positions,    \* detection.py:64
    cur_velocities,   \* detection.py:65
    bvh_cache,        \* detection.py:74: the objects that got a BVH
    collision_events, \* detection.py:45
    pair_thresholds,  \* detection.py:52
    refine,           \* locals of _refine_events and _bisect_onset
    frameSetLog,      \* history: every scene.frame_set call, in order
    contactLog,       \* history: per pair, the outcome of every pass-1 frame
    bisectLog,        \* history: per refined event, the probes of its bisection
    surface,          \* evaluator: the surface gaps the scene's geometry takes
    op,               \* COLLISION_OT_detect.execute: position, locals, outcome
    marginLog,        \* history: the edits of a collision margin during the scan
    testLog,          \* history: every contact test, with its gap and threshold
    passLog,          \* history: the coarse events of every completed pass 1
    vse,              \* the sequence editor and the position in
                      \* COLLISION_OT_add_sounds / _separate_overlapping_strips
    loader            \* the run of COLLISION_OT_load_json_events and the files

vars == <<scene, settings, geom, rigid_body, pc, frame, pairIdx,
          was_in_contact, prev_positions, cur_positions, cur_velocities,
          bvh_cache, collision_events, pair_thresholds, refine,
          frameSetLog, contactLog, bisectLog, surface, op, marginLog, testLog,
          passLog, vse, loader>>

\* The state detect_collisions and COLLISION_OT_detect work on
detectVars == <<scene, settings, geom, rigid_body, pc, frame, pairIdx,
                was_in_contact, prev_positions, cur_positions, cur_velocities,
                bvh_cache, collision_events, pair_thresholds, refine,
                frameSetLog, contactLog, bisectLog, surface, op, marginLog,
                testLog, passLog>>

----------------------------------------------------------------------------
(* Bounds and program constants *)

NumFrames == 3

RefineFrames == 2

SignedFrames == 2

MaxStrips == 3

MaxStart == 3

RoundTripFrames == 2

MarginFrames == 3

MaxMarginChanges == 1

OperatorFrames == 2

TwiceFrames == 2

MaxScans == 2

SharedFrames == 2

COLLISION_EPSILON == 10000

DEFAULT_MARGIN == 40000

SubstepsMin == 2

SubstepsMax == 64

Abs(x) == IF x < 0 THEN -x ELSE x

\* round-half-to-even of num / den (den > 0), as Python's round()
RoundHalfEven(num, den) ==
    LET q == num \div den
        r == num - q * den
    IN  IF 2 * r < den THEN q
        ELSE IF 2 * r > den THEN q + 1
        ELSE IF q % 2 = 0 THEN q ELSE q + 1

\* round(x, 4) of a length or velocity in millionths
Round4(x) == RoundHalfEven(x, 100) * 100

\* _round_vec(vec), on the modelled component
_round_vec(v) == Round4(v)

----------------------------------------------------------------------------
(* The scene: objects, collections, the evaluator *)

Objects == {"Ball", "Cube", "Ground", "Lamp"}

\* obj.type
ObjType(o) == IF o = "Lamp" THEN "LIGHT" ELSE "MESH"

\* A collection property that is not assigned (None)
NoCollection == [kind |-> "none"]

\* A collection holding the given objects, in order
Collection(objs) == [kind |-> "collection", objects |-> objs]

\* The empty dict
NoDict == << >>

FrameUnit == 40000 * settings.substeps

Frames == scene.frame_start .. scene.frame_end

\* int(x) of Python: truncation towards zero, on a time in FrameUnits
IntPart(t) == IF t >= 0 THEN t \div FrameUnit ELSE -((-t) \div FrameUnit)

\* The time the evaluator is at after scene.frame_set(frame, subframe)
SceneTime == scene.frame_current * FrameUnit + scene.subframe

\* matrix_world.translation of an object at an integer frame
FramePos(o, f) ==
    LET k == f - scene.frame_start
    IN  CASE o = "Ball"   -> 3000000 - 123456 * k * k
          [] o = "Cube"   -> 1000000
          [] OTHER        -> 77824 * k

\* matrix_world.translation of an object at evaluator time t:
\* interpolated between the integer frames, in 128ths of a frame
EvalPos(o, t) ==
    LET f0   == t \div FrameUnit
        frac == t - f0 * FrameUnit
        step == (frac * 128) \div FrameUnit
    IN  FramePos(o, f0) + ((FramePos(o, f0 + 1) - FramePos(o, f0)) * step) \div 128

\* Geometry profiles: "always" has polygons at every time, "never" at none,
\* <<"gap", k>> has none from frame k to k + 1/2 included.
GeomProfiles == {<<"always">>, <<"never">>} \cup { <<"gap", k>> : k \in Frames }

HasPolygons(o, t) ==
    CASE geom[o] = <<"always">> -> TRUE
      [] geom[o] = <<"never">>  -> FALSE
      [] OTHER -> ~ (geom[o][2] * FrameUnit <= t /\ 2 * t <= (2 * geom[o][2] + 1) * FrameUnit)

NoBvh == [kind |-> "none"]

\* _bvh_from_object(obj, depsgraph): None when the evaluated mesh has no
\* polygons, otherwise a BVH of the object built at the evaluator's time t
_bvh_from_object(o, t) ==
    IF HasPolygons(o, t)
    THEN [kind |-> "bvh", obj |-> o, at |-> t]
    ELSE NoBvh

\* BVHTree.find_nearest(point): the surface point of the BVH's mesh nearest
\* to the query point; the point is left uninterpreted (named by the mesh,
\* the time it was built at and the query)
find_nearest(bvh, q) == [kind |-> "nearest", on |-> bvh.obj, at |-> bvh.at, to |-> q]

\* mutant: the active object's position, whatever the passive surface
_contact_position_Raw(passive_bvh, active_world_pos) ==
    [kind |-> "raw", value |-> active_world_pos]

\* _contact_position(passive_bvh, active_world_pos)
_contact_position(passive_bvh, active_world_pos) ==
    IF passive_bvh = NoBvh
    THEN [kind |-> "raw", value |-> active_world_pos]
    ELSE find_nearest(passive_bvh, active_world_pos)

\* _round_vec on a contact position: a raw position is rounded, a surface
\* point keeps its name
RoundPosition(p) ==
    IF p.kind = "raw" THEN [kind |-> "raw", value |-> _round_vec(p.value)] ELSE p

\* The surface gaps the two-bounce nearest-point query can measure in the
\* scene
GapValues == surface.values

\* A scene whose sub-frame contact is a function of the time within the
\* frame, the same in every frame: the surfaces are at the least gap from
\* onset 64ths of a frame on, and during the eighth of a frame number blip
\* (none when blip = 0); at the other times they are at the greatest gap.
\* At the integer frames the gap is any of vals.
ProfileSurface(vals, onset, blip) ==
    [kind |-> "profile", values |-> vals, onset |-> onset, blip |-> blip]

Least(S) == CHOOSE x \in S : \A y \in S : x <= y

Greatest(S) == CHOOSE x \in S : \A y \in S : x >= y

\* The 64ths of a frame passed at time t since the last integer frame
Frac64(t) == ((t % FrameUnit) * 64) \div FrameUnit

\* Whether the surfaces of a profile scene are at the least gap at time t
ProfileNear(t) ==
    \/ Frac64(t) >= surface.onset
    \/ (surface.blip > 0 /\ Frac64(t) \div 8 = surface.blip)

\* The gaps the query can measure at the sub-frame time t
ProbeGaps(t) ==
    IF surface.kind = "free" THEN GapValues
    ELSE IF ProfileNear(t) THEN {Least(GapValues)} ELSE {Greatest(GapValues)}

----------------------------------------------------------------------------
(* detect_collisions: set-up (detection.py:32-54) *)

NoBody == [present |-> FALSE]

\* [obj for obj in collection.objects if obj.type == 'MESH']
MeshObjects(collection) ==
    IF collection = NoCollection THEN << >>
    ELSE SelectSeq(collection.objects, LAMBDA o : ObjType(o) = "MESH")

Targets == MeshObjects(settings.targets_collection)

Colliders == MeshObjects(settings.colliders_collection)

\* list(product(targets, colliders)): target-major order
Pairs ==
    [i \in 1 .. Len(Targets) * Len(Colliders) |->
        << Targets[((i - 1) \div Len(Colliders)) + 1],
           Colliders[((i - 1) % Len(Colliders)) + 1] >>]

PairSet == { Pairs[i] : i \in DOMAIN Pairs }

\* The index of a pair in the list of pairs
PairIndex(target, collider) == CHOOSE i \in DOMAIN Pairs : Pairs[i] = <<target, collider>>

\* A scene whose surface gaps are a fixed function of the pair and the frame:
\* gaps[<<i, k>>] is the gap of the i-th pair from right after frame k - 1
\* up to frame k (counted from frame_start)
ScriptedSurface(vals, gaps) == [kind |-> "scripted", values |-> vals, gaps |-> gaps]

\* The integer frame at or after the time t, counted from frame_start
FrameIndexAt(t) == ((t + FrameUnit - 1) \div FrameUnit) - scene.frame_start + 1

\* detection.py:205-211: the gaps the two-bounce query of
\* _surfaces_within_distance can measure between the two objects at the
\* evaluator's time t.  Between a mesh and itself the second query returns
\* the point it was given: the gap is 0.
PairGaps(target, collider, t) ==
    IF target = collider THEN {0}
    ELSE IF surface.kind = "scripted"
    THEN {surface.gaps[<<PairIndex(target, collider), FrameIndexAt(t)>>]}
    ELSE IF t % FrameUnit = 0 THEN GapValues
    ELSE ProbeGaps(t)

\* all_objects: the names of the targets, then of the colliders
AllObjects == { Targets[i] : i \in DOMAIN Targets } \cup { Colliders[i] : i \in DOMAIN Colliders }

\* substeps = settings.substeps if precision else 1
Substeps == IF settings.precision_mode THEN settings.substeps ELSE 1

\* obj.rigid_body.collision_margin if obj.rigid_body else DEFAULT_MARGIN
Margin(o) == IF rigid_body[o].present THEN rigid_body[o].collision_margin ELSE DEFAULT_MARGIN

\* mutant: the epsilon left out
_collision_threshold_NoEpsilon(obj_a, obj_b) ==
    (IF rigid_body[obj_a].present THEN rigid_body[obj_a].collision_margin ELSE DEFAULT_MARGIN)
    + (IF rigid_body[obj_b].present THEN rigid_body[obj_b].collision_margin ELSE DEFAULT_MARGIN)

\* detection.py:190-194
_collision_threshold(obj_a, obj_b) == Margin(obj_a) + Margin(obj_b) + COLLISION_EPSILON

\* BVHTree.overlap of two proxies built with epsilon = COLLISION_EPSILON
\* (detection.py:258): triangle pairs overlap when the surfaces are within
\* the padding of the two proxies
ProxiesOverlap(gap) == gap <= 2 * COLLISION_EPSILON

\* mutant: the overlap test in place of the distance test
_surfaces_within_distance_Overlap(gap, threshold) == ProxiesOverlap(gap)

\* mutant: the boundary excluded
_surfaces_within_distance_Strict(gap, threshold) == gap < threshold

\* _surfaces_within_distance: the two-bounce gap against the threshold
_surfaces_within_distance(gap, threshold) == gap <= threshold

NoRefine == [kind |-> "none"]

GeomChoices ==
    { g \in [Objects -> GeomProfiles] :
        Cardinality({ o \in Objects : g[o] # <<"always">> }) <= 1 }

\* A rigid body with the given collision margin
Body(m) == [present |-> TRUE, collision_margin |-> m]

\* A scene whose geometry can take any of the gaps vals at any sampled time
FreeSurface(vals) == [kind |-> "free", values |-> vals]

\* properties.py:49-54: the default of output_path
DefaultOutputPath == "~/Downloads/collision_events.json"

\* properties.py:44-48: export_json at its default
NoExport == [export_json |-> FALSE, output_path |-> DefaultOutputPath]

\* No file written
NoFile == [kind |-> "none"]

\* No sequence editor in use
NoSequencer ==
    [pc |-> "none", existing |-> << >>, spans |-> << >>, strips |-> << >>,
     base_channel |-> 0, sorted_strips |-> << >>, channel_strips |-> << >>,
     i |-> 0, ch |-> 0]

\* No run of the load operator
NoLoader ==
    [pc |-> "none", filepath |-> "", result |-> "none",
     report |-> [level |-> "none", message |-> "none"], data |-> << >>]

\* No run of the operator: detect_collisions is called on its own
NoOperator(current, stored) ==
    [pc |-> "none", original_frame |-> current, result |-> "none",
     report |-> [level |-> "none", message |-> "none"], events_before |-> stored,
     exported |-> NoFile]

\* The states before a run: a scene of cfg.nframes frames, the settings of
\* the add-on, the rigid bodies, the evaluator's geometry (the objects of
\* cfg.solid have polygons at every time), and the caller
\* (cfg.entry: "init" when detect_collisions is entered, "idle" when the
\* operator is about to be executed)
SetupScene(cfg) ==
    /\ \E fs \in cfg.starts : \E cur \in cfg.current :
         scene = [frame_start |-> fs, frame_end |-> fs + cfg.nframes - 1,
                  fps |-> 24, frame_current |-> cur, subframe |-> 0]
    /\ \E prec \in cfg.precs :
       \E sub \in IF prec THEN cfg.subs ELSE {8} :
       \E tc \in cfg.targets : \E cc \in cfg.colliders : \E st \in cfg.stored :
       \E ex \in cfg.exports :
         settings = [precision_mode |-> prec, substeps |-> sub,
                     targets_collection |-> tc, colliders_collection |-> cc,
                     events |-> st, export_json |-> ex.export_json,
                     output_path |-> ex.output_path]
    /\ geom \in { g \in GeomChoices :
                      \A o \in (Objects \ AllObjects) \cup cfg.solid : g[o] = <<"always">> }
    /\ rigid_body \in cfg.bodies
    /\ surface \in cfg.surfaces
    /\ pc = cfg.entry
    /\ op = [NoOperator(scene.frame_current, settings.events)
               EXCEPT !.pc = IF cfg.entry = "idle" THEN "execute" ELSE "none"]
    /\ frame = scene.frame_start
    /\ pairIdx = 1
    /\ was_in_contact = NoDict
    /\ prev_positions = NoDict
    /\ cur_positions = NoDict
    /\ cur_velocities = NoDict
    /\ bvh_cache = NoDict
    /\ collision_events = << >>
    /\ pair_thresholds = NoDict
    /\ refine = NoRefine
    /\ frameSetLog = << >>
    /\ contactLog = [p \in PairSet |-> << >>]
    /\ bisectLog = << >>
    /\ marginLog = << >>
    /\ testLog = << >>
    /\ passLog = << >>
    /\ vse \in cfg.sequencers
    /\ loader \in cfg.loaders

\* The states detect_collisions is entered in: a scene of nframes frames
\* whose targets and colliders collections hold the objects tgts and cols,
\* with the precision settings drawn from precs and subs, no rigid bodies,
\* and surfaces whose gaps straddle the default threshold
Setup(nframes, precs, subs, tgts, cols) ==
    SetupScene([nframes |-> nframes, precs |-> precs, subs |-> subs,
                targets |-> {Collection(tgts)}, colliders |-> {Collection(cols)},
                bodies |-> {[o \in Objects |-> NoBody]}, solid |-> {},
                surfaces |-> {FreeSurface({90000, 90001})},
                entry |-> "init", starts |-> {1},
                sequencers |-> {NoSequencer}, loaders |-> {NoLoader}, current |-> {1}, stored |-> {<< >>},
                exports |-> {NoExport}])

Init == Setup(NumFrames, BOOLEAN, {2, 4}, <<"Ball", "Lamp", "Cube">>, <<"Ground">>)

\* mutant: the state of a previous call is kept
InitialContact_Carried(p) == IF was_in_contact = NoDict THEN FALSE ELSE was_in_contact[p]

\* mutant: every pair starts touching
InitialContact_Touching(p) == TRUE

\* detection.py:43: the state every pair starts in
InitialContact(p) == FALSE

\* detection.py:32-54
DetectInit ==
    /\ pc = "init"
    /\ was_in_contact' = [p \in PairSet |-> InitialContact(p)]
    /\ prev_positions' = NoDict
    /\ collision_events' = << >>
    /\ pair_thresholds' = [p \in PairSet |-> _collision_threshold(p[1], p[2])]
    /\ frame' = scene.frame_start
    /\ pc' = IF scene.frame_start <= scene.frame_end THEN "frame_set" ELSE "pass1_done"
    /\ UNCHANGED <<scene, settings, geom, rigid_body, pairIdx, cur_positions,
                   cur_velocities, bvh_cache, refine, frameSetLog, contactLog, bisectLog, surface, op, marginLog, testLog, passLog, vse, loader>>

----------------------------------------------------------------------------
(* detect_collisions: pass 1 (detection.py:60-114) *)

\* detection.py:226, 149, 162: the subframe argument of frame_set is a
\* fraction of a frame, a value outside [0, 1] is brought to the nearer end
ClampSubframe(sub) == IF sub < 0 THEN 0 ELSE IF sub > FrameUnit THEN FrameUnit ELSE sub

\* scene.frame_set(frame, subframe=sub): sets the evaluator's time
FrameSetCall(f, sub, phase) ==
    /\ scene' = [scene EXCEPT !.frame_current = f, !.subframe = ClampSubframe(sub)]
    /\ frameSetLog' = Append(frameSetLog, [frame |-> f, subframe |-> sub, phase |-> phase])

\* detection.py:226-227, 149-150, 162-163: the time the evaluator is at after
\* frame_set(f, subframe=sub) and the update
EvaluatorTime(f, sub) == f * FrameUnit + ClampSubframe(sub)

\* detection.py:61-62
FrameSet ==
    /\ pc = "frame_set"
    /\ FrameSetCall(frame, 0, "pass1")
    /\ pc' = "sample"
    /\ UNCHANGED <<settings, geom, rigid_body, frame, pairIdx, was_in_contact,
                   prev_positions, cur_positions, cur_velocities, bvh_cache,
                   collision_events, pair_thresholds, refine, contactLog,
                   bisectLog, surface, op, marginLog, testLog, passLog, vse, loader>>

\* mutant: the difference taken the wrong way round
FrameVelocity_Reversed(pos, name) ==
    IF prev_positions # NoDict /\ name \in DOMAIN prev_positions
    THEN (prev_positions[name] - pos) * scene.fps
    ELSE 0

\* (pos - prev_positions[name]) * fps, or the zero vector
FrameVelocity(pos, name) ==
    IF prev_positions # NoDict /\ name \in DOMAIN prev_positions
    THEN (pos - prev_positions[name]) * scene.fps
    ELSE 0

\* detection.py:64-72
SamplePositions ==
    /\ pc = "sample"
    /\ cur_positions' = [o \in AllObjects |-> EvalPos(o, SceneTime)]
    /\ cur_velocities' = [o \in AllObjects |-> FrameVelocity(EvalPos(o, SceneTime), o)]
    /\ pc' = "bvh"
    /\ UNCHANGED <<scene, settings, geom, rigid_body, frame, pairIdx, was_in_contact,
                   prev_positions, bvh_cache, collision_events, pair_thresholds,
                   refine, frameSetLog, contactLog, bisectLog, surface, op, marginLog, testLog, passLog, vse, loader>>

\* mutant: the dict is not emptied, a proxy of an earlier frame stays when
\* its object has no polygons now
BuiltCache_Kept(t) ==
    [o \in { x \in AllObjects : _bvh_from_object(x, t) # NoBvh } \cup DOMAIN bvh_cache |->
        IF _bvh_from_object(o, t) # NoBvh THEN _bvh_from_object(o, t) ELSE bvh_cache[o]]

\* detection.py:74-78: the dict built at the evaluator's time t
BuiltCache(t) ==
    [o \in { x \in AllObjects : _bvh_from_object(x, t) # NoBvh } |-> _bvh_from_object(o, t)]

\* detection.py:74-78
BuildBvhCache ==
    /\ pc = "bvh"
    /\ bvh_cache' = BuiltCache(SceneTime)
    /\ pairIdx' = 1
    /\ pc' = "pairs"
    /\ UNCHANGED <<scene, settings, geom, rigid_body, frame, was_in_contact,
                   prev_positions, cur_positions, cur_velocities, collision_events,
                   pair_thresholds, refine, frameSetLog, contactLog, bisectLog, surface, op, marginLog, testLog, passLog, vse, loader>>

\* bvh_cache.get(name)
CacheGet(name) == IF name \in DOMAIN bvh_cache THEN bvh_cache[name] ELSE NoBvh

\* mutant: the scan steps over every other frame
NextFrame_Skip(f) == f + 2

\* range(frame_start, frame_end + 1): the frame after f
NextFrame(f) == f + 1

\* mutant: `break` instead of `continue`
AfterSkip_Break(idx) == Len(Pairs) + 1

\* detection.py:84: `continue` goes on with the next pair
AfterSkip(idx) == idx + 1

\* mutant: the state is never recorded
NewContactState_Dropped(is_in_contact, was) == FALSE

\* mutant: the state is never reset
NewContactState_Sticky(is_in_contact, was) == was \/ is_in_contact

\* detection.py:112
NewContactState(is_in_contact, was) == is_in_contact

\* detection.py:83: the pair is skipped at this frame
PairSkipped(bvh_t, bvh_c) == bvh_t = NoBvh \/ bvh_c = NoBvh

\* mutant: the threshold computed anew for every test
StoredThreshold_Recomputed(target, collider) == _collision_threshold(target, collider)

\* detection.py:86 and 137: the threshold of a pair, as stored before the scan
StoredThreshold(target, collider) == pair_thresholds[<<target, collider>>]

\* One contact test, as the history keeps it
TestRecord(target, collider, t, gap, threshold, phase) ==
    [pair |-> <<target, collider>>, at |-> t, gap |-> gap, threshold |-> threshold,
     result |-> _surfaces_within_distance(gap, threshold), phase |-> phase]

\* mutant: every frame in contact counts as an onset
IsOnset_NoEdge(is_in_contact, was) == is_in_contact

\* detection.py:94: a collision onset
IsOnset(is_in_contact, was) == is_in_contact /\ ~was

\* round(frame / fps, 6), in millionths of a second, of a time in FrameUnits
EventTime(t) == RoundHalfEven(t * 25, settings.substeps * scene.fps)

\* detection.py:95-110: the event appended for an onset at the current frame
CoarseEvent(target, collider) ==
    LET pos_t   == cur_positions[target]
        bvh_c   == CacheGet(collider)
        contact == _contact_position(bvh_c, pos_t)
        vel_t   == cur_velocities[target]
        vel_c   == cur_velocities[collider]
        rel_vel == vel_t - vel_c
    IN  [frame |-> frame * FrameUnit,
         time |-> EventTime(frame * FrameUnit),
         target |-> target,
         collider |-> collider,
         position |-> RoundPosition(contact),
         velocity |-> _round_vec(vel_t),
         relative_velocity |-> _round_vec(rel_vel),
         speed |-> Round4(Abs(rel_vel))]

\* mutant: a skipped pair counts as not touching
StateAfterSkip_Cleared(key) == [was_in_contact EXCEPT ![key] = FALSE]

\* detection.py:83-84: `continue` is taken before line 112, was_in_contact
\* is not written
StateAfterSkip(key) == was_in_contact

\* detection.py:80-84: one iteration of the pair loop that hits `continue`
SkipPair ==
    /\ pc = "pairs"
    /\ pairIdx <= Len(Pairs)
    /\ LET key == Pairs[pairIdx]
       IN  /\ PairSkipped(CacheGet(key[1]), CacheGet(key[2]))
           /\ contactLog' = [contactLog EXCEPT ![key] = Append(@, "skip")]
           /\ was_in_contact' = StateAfterSkip(key)
    /\ pairIdx' = AfterSkip(pairIdx)
    /\ UNCHANGED <<scene, settings, geom, rigid_body, pc, frame,
                   prev_positions, cur_positions, cur_velocities, bvh_cache,
                   collision_events, pair_thresholds, refine, frameSetLog, bisectLog, surface, op, marginLog, testLog, passLog, vse, loader>>

\* detection.py:80-112: one iteration of the pair loop that tests the pair
TestPair ==
    /\ pc = "pairs"
    /\ pairIdx <= Len(Pairs)
    /\ LET key == Pairs[pairIdx]
       IN  /\ ~PairSkipped(CacheGet(key[1]), CacheGet(key[2]))
           /\ \E gap \in PairGaps(key[1], key[2], SceneTime) :
                LET threshold     == StoredThreshold(key[1], key[2])
                    is_in_contact == _surfaces_within_distance(gap, threshold)
                IN  /\ testLog' = Append(testLog, TestRecord(key[1], key[2], SceneTime,
                                                              gap, threshold, "pass1"))
                    /\ collision_events' =
                         IF IsOnset(is_in_contact, was_in_contact[key])
                         THEN Append(collision_events, CoarseEvent(key[1], key[2]))
                         ELSE collision_events
                    /\ was_in_contact' = [was_in_contact EXCEPT
                                             ![key] = NewContactState(is_in_contact, @)]
                    /\ contactLog' = [contactLog EXCEPT
                                         ![key] = Append(@, IF is_in_contact THEN "in" ELSE "out")]
    /\ pairIdx' = pairIdx + 1
    /\ UNCHANGED <<scene, settings, geom, rigid_body, pc, frame, prev_positions,
                   cur_positions, cur_velocities, bvh_cache, pair_thresholds,
                   refine, frameSetLog, bisectLog, surface, op, marginLog, passLog, vse, loader>>

\* detection.py:114 and the loop header of line 60
EndFrame ==
    /\ pc = "pairs"
    /\ pairIdx > Len(Pairs)
    /\ prev_positions' = cur_positions
    /\ IF frame < scene.frame_end
       THEN frame' = NextFrame(frame) /\ pc' = "frame_set"
       ELSE frame' = frame /\ pc' = "pass1_done"
    /\ UNCHANGED <<scene, settings, geom, rigid_body, pairIdx, was_in_contact,
                   cur_positions, cur_velocities, bvh_cache, collision_events,
                   pair_thresholds, refine, frameSetLog, contactLog, bisectLog, surface, op, marginLog, testLog, passLog, vse, loader>>

----------------------------------------------------------------------------
(* detect_collisions: pass 2 (detection.py:120-126), _refine_events and
   _bisect_onset *)

\* mutant: pass 2 runs whatever the precision setting
RunsPassTwo_Always == collision_events # << >>

\* detection.py:120: whether pass 2 runs
RunsPassTwo == settings.precision_mode /\ collision_events # << >>

\* detection.py:120-126 with detection.py:132
PassOneDone ==
    /\ pc = "pass1_done"
    /\ IF RunsPassTwo
       THEN /\ pc' = "refine_event"
            /\ refine' = [events |-> collision_events, refined |-> << >>, i |-> 1]
       ELSE /\ pc' = "returned"
            /\ refine' = refine
    /\ passLog' = Append(passLog, collision_events)
    /\ UNCHANGED <<scene, settings, geom, rigid_body, frame, pairIdx, was_in_contact,
                   prev_positions, cur_positions, cur_velocities, bvh_cache,
                   collision_events, pair_thresholds, frameSetLog, contactLog, bisectLog, surface, op, marginLog, testLog, vse, loader>>

\* mutant: floor(log2(n))
CeilLog2_Floor(n) == CHOOSE k \in 0 .. 7 : 2^k <= n /\ \A j \in 0 .. 7 : 2^j <= n => j <= k

\* The least k with 2^k >= n: ceil(log2(n)) for n >= 1
CeilLog2(n) == CHOOSE k \in 0 .. 7 : 2^k >= n /\ \A j \in 0 .. 7 : 2^j >= n => k <= j

\* mutant: one iteration less
Iterations_OneLess(substeps) == IF CeilLog2(substeps) > 2 THEN CeilLog2(substeps) - 1 ELSE 1

\* detection.py:220
Iterations(substeps) == IF CeilLog2(substeps) > 1 THEN CeilLog2(substeps) ELSE 1

\* mutant: round(x), to a whole frame
RoundFrame4_Whole(t) == RoundHalfEven(t, FrameUnit) * FrameUnit

\* mutant: round(x, 1)
RoundFrame4_OneDecimal(t) == RoundHalfEven(t, 4000 * settings.substeps) * 4000 * settings.substeps

\* round(x, 4) of a frame time: to a multiple of a 10000th of a frame
RoundFrame4(t) == RoundHalfEven(t, 4 * settings.substeps) * 4 * settings.substeps

\* detection.py:139: whether the onset is bisected
Bisected(frame_i) == frame_i > scene.frame_start

\* detection.py:134-145 and 218-220
RefineBegin ==
    /\ pc = "refine_event"
    /\ LET ev      == refine.events[refine.i]
           frame_i == IntPart(ev.frame)
       IN  IF Bisected(frame_i)
           THEN /\ refine' = [events |-> refine.events, refined |-> refine.refined,
                              i |-> refine.i,
                              threshold |-> StoredThreshold(ev.target, ev.collider),
                              lo |-> (frame_i - 1) * FrameUnit,
                              hi |-> frame_i * FrameUnit,
                              iterations |-> Iterations(Substeps),
                              k |-> 0]
                /\ bisectLog' = Append(bisectLog, [frame_hi |-> frame_i, bisected |-> TRUE,
                                                   probes |-> << >>])
                /\ pc' = "bisect"
           ELSE /\ refine' = [events |-> refine.events, refined |-> refine.refined,
                              i |-> refine.i,
                              threshold |-> StoredThreshold(ev.target, ev.collider),
                              precise_frame |-> frame_i * FrameUnit]
                /\ bisectLog' = Append(bisectLog, [frame_hi |-> frame_i, bisected |-> FALSE,
                                                   probes |-> << >>])
                /\ pc' = "refine_sample"
    /\ UNCHANGED <<scene, settings, geom, rigid_body, frame, pairIdx, was_in_contact,
                   prev_positions, cur_positions, cur_velocities, bvh_cache,
                   collision_events, pair_thresholds, frameSetLog, contactLog, surface, op, marginLog, testLog, passLog, vse, loader>>

\* mutant: a quarter of the way
Mid_Quarter(lo, hi) == lo + (hi - lo) \div 4

\* detection.py:223
Mid(lo, hi) == (lo + hi) \div 2

\* mutant: the contact test inverted
NextInterval_Inverted(lo, hi, mid, bvh_a, bvh_b, in_contact) ==
    IF bvh_a = NoBvh \/ bvh_b = NoBvh THEN <<mid, hi>>
    ELSE IF in_contact THEN <<mid, hi>>
    ELSE <<lo, mid>>

\* detection.py:231-233 and 238-241: the interval after one probe
NextInterval(lo, hi, mid, bvh_a, bvh_b, in_contact) ==
    IF bvh_a = NoBvh \/ bvh_b = NoBvh THEN <<mid, hi>>
    ELSE IF in_contact THEN <<lo, mid>>
    ELSE <<mid, hi>>

\* detection.py:222-241: one iteration of the bisection loop
BisectStep ==
    /\ pc = "bisect"
    /\ refine.k < refine.iterations
    /\ LET ev      == refine.events[refine.i]
           mid     == Mid(refine.lo, refine.hi)
           mid_int == IntPart(mid)
           mid_sub == mid - mid_int * FrameUnit
           t       == EvaluatorTime(mid_int, mid_sub)
           bvh_a   == _bvh_from_object(ev.target, t)
           bvh_b   == _bvh_from_object(ev.collider, t)
       IN  /\ FrameSetCall(mid_int, mid_sub, "bisect")
           /\ \E gap \in IF bvh_a = NoBvh \/ bvh_b = NoBvh THEN {0}
                          ELSE PairGaps(ev.target, ev.collider, t) :
                LET in_contact == _surfaces_within_distance(gap, refine.threshold)
                    nxt == NextInterval(refine.lo, refine.hi, mid, bvh_a, bvh_b, in_contact)
                    res == IF bvh_a = NoBvh \/ bvh_b = NoBvh THEN "skip"
                           ELSE IF in_contact THEN "in" ELSE "out"
                IN  /\ refine' = [refine EXCEPT !.lo = nxt[1], !.hi = nxt[2], !.k = @ + 1]
                    /\ bisectLog' = [bisectLog EXCEPT ![Len(bisectLog)].probes =
                                        Append(@, [mid |-> mid, result |-> res])]
                    /\ testLog' = IF res = "skip" THEN testLog
                                  ELSE Append(testLog, TestRecord(ev.target, ev.collider, t, gap,
                                                                  refine.threshold, "bisect"))
    /\ pc' = "bisect"
    /\ UNCHANGED <<settings, geom, rigid_body, frame, pairIdx, was_in_contact,
                   prev_positions, cur_positions, cur_velocities, bvh_cache,
                   collision_events, pair_thresholds, contactLog, surface, op, marginLog, passLog, vse, loader>>

\* detection.py:243 and 140
BisectReturn ==
    /\ pc = "bisect"
    /\ refine.k = refine.iterations
    /\ refine' = [events |-> refine.events, refined |-> refine.refined, i |-> refine.i,
                  threshold |-> refine.threshold,
                  precise_frame |-> RoundFrame4(refine.hi), hi_raw |-> refine.hi]
    /\ pc' = "refine_sample"
    /\ UNCHANGED <<scene, settings, geom, rigid_body, frame, pairIdx, was_in_contact,
                   prev_positions, cur_positions, cur_velocities, bvh_cache,
                   collision_events, pair_thresholds, frameSetLog, contactLog, bisectLog, surface, op, marginLog, testLog, passLog, vse, loader>>

\* detection.py:147-156
RefineSample ==
    /\ pc = "refine_sample"
    /\ LET ev          == refine.events[refine.i]
           precise_int == IntPart(refine.precise_frame)
           precise_sub == refine.precise_frame - precise_int * FrameUnit
           t           == EvaluatorTime(precise_int, precise_sub)
           pos_t       == EvalPos(ev.target, t)
           pos_c       == EvalPos(ev.collider, t)
           bvh_c       == _bvh_from_object(ev.collider, t)
       IN  /\ FrameSetCall(precise_int, precise_sub, "refine")
           /\ refine' = [events |-> refine.events, refined |-> refine.refined,
                         i |-> refine.i, threshold |-> refine.threshold,
                         precise_frame |-> refine.precise_frame,
                         pos_t |-> pos_t, pos_c |-> pos_c,
                         contact |-> _contact_position(bvh_c, pos_t)]
    /\ pc' = "refine_velocity"
    /\ UNCHANGED <<settings, geom, rigid_body, frame, pairIdx, was_in_contact,
                   prev_positions, cur_positions, cur_velocities, bvh_cache,
                   collision_events, pair_thresholds, contactLog, bisectLog, surface, op, marginLog, testLog, passLog, vse, loader>>

RECURSIVE Gcd(_, _)
Gcd(a, b) == IF b = 0 THEN a ELSE Gcd(b, a % b)

\* mutant: a whole substep
HalfStep_Whole == FrameUnit \div Substeps

\* half_step = 0.5 / substeps, in FrameUnits
HalfStep == FrameUnit \div (2 * Substeps)

\* mutant: no clamp at the first frame of the range
PrevT_NoClamp(precise_frame) == precise_frame - HalfStep

\* detection.py:159
PrevT(precise_frame) ==
    IF precise_frame - HalfStep > scene.frame_start * FrameUnit
    THEN precise_frame - HalfStep
    ELSE scene.frame_start * FrameUnit

\* detection.py:167-174: the velocities as fractions num / den
\* (pos - prev_pos) / dt with dt = (precise_frame - prev_t) / fps, or the
\* fallback when dt <= 0
RefinedVelocities(ev, precise_frame, prev_t, pos_t, pos_c, prev_pos_t, prev_pos_c) ==
    IF precise_frame - prev_t > 0
    THEN LET g == Gcd(FrameUnit, precise_frame - prev_t)
         IN  [vel_t |-> (pos_t - prev_pos_t) * scene.fps * (FrameUnit \div g),
              vel_c |-> (pos_c - prev_pos_c) * scene.fps * (FrameUnit \div g),
              den   |-> (precise_frame - prev_t) \div g]
    ELSE [vel_t |-> ev.velocity, vel_c |-> 0, den |-> 1]

\* round(x, 4) of the fraction num / den, in millionths
Round4Ratio(num, den) == RoundHalfEven(num, den * 100) * 100

\* mutant: the identifiers the wrong way round
RefinedEvent_Swapped(ev, precise_frame, contact, v) ==
    [frame |-> RoundFrame4(precise_frame),
     time |-> EventTime(precise_frame),
     target |-> ev.collider,
     collider |-> ev.target,
     position |-> RoundPosition(contact),
     velocity |-> Round4Ratio(v.vel_t, v.den),
     relative_velocity |-> Round4Ratio(v.vel_t - v.vel_c, v.den),
     speed |-> Round4Ratio(Abs(v.vel_t - v.vel_c), v.den)]

\* detection.py:176-185
RefinedEvent(ev, precise_frame, contact, v) ==
    [frame |-> RoundFrame4(precise_frame),
     time |-> EventTime(precise_frame),
     target |-> ev.target,
     collider |-> ev.collider,
     position |-> RoundPosition(contact),
     velocity |-> Round4Ratio(v.vel_t, v.den),
     relative_velocity |-> Round4Ratio(v.vel_t - v.vel_c, v.den),
     speed |-> Round4Ratio(Abs(v.vel_t - v.vel_c), v.den)]

\* detection.py:158-187 and the assignment of detection.py:121
RefineVelocity ==
    /\ pc = "refine_velocity"
    /\ LET ev         == refine.events[refine.i]
           prev_t     == PrevT(refine.precise_frame)
           prev_int   == IntPart(prev_t)
           prev_sub   == prev_t - prev_int * FrameUnit
           t          == EvaluatorTime(prev_int, prev_sub)
           prev_pos_t == EvalPos(ev.target, t)
           prev_pos_c == EvalPos(ev.collider, t)
           v          == RefinedVelocities(ev, refine.precise_frame, prev_t,
                                           refine.pos_t, refine.pos_c,
                                           prev_pos_t, prev_pos_c)
           refined    == Append(refine.refined,
                                RefinedEvent(ev, refine.precise_frame, refine.contact, v))
       IN  /\ FrameSetCall(prev_int, prev_sub, "velocity")
           /\ IF refine.i < Len(refine.events)
              THEN /\ refine' = [events |-> refine.events, refined |-> refined,
                                 i |-> refine.i + 1]
                   /\ pc' = "refine_event"
                   /\ collision_events' = collision_events
              ELSE /\ refine' = [events |-> refine.events, refined |-> refined,
                                 i |-> refine.i + 1]
                   /\ pc' = "returned"
                   /\ collision_events' = refined
    /\ UNCHANGED <<settings, geom, rigid_body, frame, pairIdx, was_in_contact,
                   prev_positions, cur_positions, cur_velocities, bvh_cache,
                   pair_thresholds, contactLog, bisectLog, surface, op, marginLog, testLog, passLog, vse, loader>>

Next ==
    \/ DetectInit
    \/ FrameSet
    \/ SamplePositions
    \/ BuildBvhCache
    \/ SkipPair
    \/ TestPair
    \/ EndFrame
    \/ PassOneDone
    \/ RefineBegin
    \/ BisectStep
    \/ BisectReturn
    \/ RefineSample
    \/ RefineVelocity

Spec == Init /\ [][Next]_vars

\* One (target, collider) pair scanned in precision mode, for every value
\* the substeps property admits
InitRefine == Setup(RefineFrames, {TRUE}, SubstepsMin .. SubstepsMax, <<"Ball">>, <<"Ground">>)

SpecRefine == InitRefine /\ [][Next]_vars

\* One pair scanned in precision mode over frame ranges that lie below
\* zero, end at zero, start at zero and lie above it
InitSigned ==
    SetupScene([nframes |-> SignedFrames, precs |-> {TRUE}, subs |-> {2, 4, 8},
                targets |-> {Collection(<<"Ball">>)},
                colliders |-> {Collection(<<"Ground">>)},
                bodies |-> {[o \in Objects |-> NoBody]}, solid |-> {},
                surfaces |-> {FreeSurface({90000, 90001})},
                entry |-> "init", starts |-> {-SignedFrames, 1 - SignedFrames, 0, 1},
                sequencers |-> {NoSequencer}, loaders |-> {NoLoader},
                current |-> {1}, stored |-> {<< >>}, exports |-> {NoExport}])

SpecSigned == InitSigned /\ [][Next]_vars

\* What every step of detect_collisions advances: the position, the pair
\* index or the frame_set calls made
progress == <<pc, pairIdx, frameSetLog>>

\* The same, with the interpreter running _bisect_onset to its end: an
\* iteration of its loop and its return are blocking calls that are taken
\* once they are enabled
SpecRefineFair ==
    InitRefine /\ [][Next]_vars /\ WF_progress(BisectStep) /\ WF_progress(BisectReturn)

----------------------------------------------------------------------------
(* _bisect_onset as a function of the scene (detection.py:214-243) *)

\* detection.py:222-241: the upper end of the interval after n iterations
\* from [lo, hi], in a scene whose gap is a function of the time
RECURSIVE BisectLoop(_, _, _, _, _, _)
BisectLoop(obj_a, obj_b, lo, hi, threshold, n) ==
    IF n = 0 THEN hi
    ELSE LET mid        == Mid(lo, hi)
             bvh_a      == _bvh_from_object(obj_a, mid)
             bvh_b      == _bvh_from_object(obj_b, mid)
             gap        == CHOOSE g \in PairGaps(obj_a, obj_b, mid) : TRUE
             in_contact == _surfaces_within_distance(gap, threshold)
             nxt        == NextInterval(lo, hi, mid, bvh_a, bvh_b, in_contact)
         IN  BisectLoop(obj_a, obj_b, nxt[1], nxt[2], threshold, n - 1)

\* _bisect_onset(scene, depsgraph, obj_a, obj_b, frame_lo, frame_hi,
\* substeps, threshold), in a scene whose gap is a function of the time
_bisect_onset(obj_a, obj_b, frame_lo, frame_hi, substeps, threshold) ==
    RoundFrame4(BisectLoop(obj_a, obj_b, frame_lo * FrameUnit, frame_hi * FrameUnit,
                           threshold, Iterations(substeps)))

\* The instants, in 64ths of a frame, from which the profile scenes are in
\* contact, and the eighths of a frame of their earlier contact
OnsetChoices == {1, 7, 8, 9, 24, 32, 33, 47, 56, 63, 64}

BlipChoices == {0, 1, 5}

\* One pair scanned in precision mode, for every value of substeps, in
\* scenes whose sub-frame gap is a function of the time
InitBisect ==
    SetupScene([nframes |-> RefineFrames, precs |-> {TRUE},
                subs |-> SubstepsMin .. SubstepsMax,
                targets |-> {Collection(<<"Ball">>)}, colliders |-> {Collection(<<"Ground">>)},
                bodies |-> {[o \in Objects |-> NoBody]}, solid |-> {"Ball"},
                surfaces |-> { ProfileSurface({90000, 90001}, c, b) :
                                  c \in OnsetChoices, b \in BlipChoices },
                entry |-> "init", starts |-> {1},
                sequencers |-> {NoSequencer}, loaders |-> {NoLoader}, current |-> {1}, stored |-> {<< >>},
                exports |-> {NoExport}])

SpecBisect == InitBisect /\ [][Next]_vars

----------------------------------------------------------------------------
(* Rigid-body margins and thresholds (detection.py:190-194) *)

\* The collision margins a rigid body is given in the scenes checked
MarginValues == {5000, 20000}

\* The rigid bodies of the scenes checked: both objects with a margin of
\* 0.02 (threshold 0.05), both with 0.005 (threshold 0.02), and one of the
\* two without a rigid body
BodyChoices ==
    { [o \in Objects |-> IF o = "Ball" THEN b[1] ELSE IF o = "Ground" THEN b[2] ELSE NoBody] :
        b \in { <<Body(20000), Body(20000)>>, <<Body(5000), Body(5000)>>,
                <<NoBody, Body(5000)>>, <<Body(20000), NoBody>> } }

\* The code that runs inside scene.frame_set (handlers, drivers) edits the
\* collision margin of a rigid body while the scan is running
SetCollisionMargin ==
    /\ pc \in {"frame_set", "bisect"}
    /\ Len(marginLog) < MaxMarginChanges
    /\ \E o \in AllObjects : \E m \in MarginValues :
          /\ rigid_body[o].present
          /\ rigid_body[o].collision_margin # m
          /\ rigid_body' = [rigid_body EXCEPT ![o].collision_margin = m]
          /\ marginLog' = Append(marginLog, [obj |-> o, old |-> rigid_body[o].collision_margin,
                                             new |-> m, tests |-> Len(testLog)])
    /\ UNCHANGED <<scene, settings, geom, pc, frame, pairIdx, was_in_contact,
                   prev_positions, cur_positions, cur_velocities, bvh_cache,
                   collision_events, pair_thresholds, refine, frameSetLog, contactLog,
                   bisectLog, surface, op, testLog, passLog, vse, loader>>

NextMargin == Next \/ SetCollisionMargin

\* One pair whose objects carry rigid bodies, over surfaces whose gaps lie
\* at, below and above the thresholds
InitMargin ==
    SetupScene([nframes |-> MarginFrames, precs |-> BOOLEAN, subs |-> {2},
                targets |-> {Collection(<<"Ball">>)}, colliders |-> {Collection(<<"Ground">>)},
                bodies |-> BodyChoices, solid |-> {"Ball"},
                surfaces |-> {FreeSurface({20000, 40000, 50000, 50001})},
                entry |-> "init", starts |-> {1},
                sequencers |-> {NoSequencer}, loaders |-> {NoLoader}, current |-> {1}, stored |-> {<< >>},
                exports |-> {NoExport}])

SpecMargin == InitMargin /\ [][NextMargin]_vars

----------------------------------------------------------------------------
(* detect_collisions called again on the same scene (detection.py:12-126) *)

\* The caller calls detect_collisions once more after it returned: the
\* locals of the call that ended are gone (those detection.py:43-45 assigns
\* are left for DetectInit), the scene and the evaluator are as the call
\* left them, and the histories start anew
Rescan ==
    /\ pc = "returned"
    /\ Len(passLog) < MaxScans
    /\ pc' = "init"
    /\ pairIdx' = 1
    /\ cur_positions' = NoDict
    /\ cur_velocities' = NoDict
    /\ bvh_cache' = NoDict
    /\ pair_thresholds' = NoDict
    /\ refine' = NoRefine
    /\ frameSetLog' = << >>
    /\ contactLog' = [p \in PairSet |-> << >>]
    /\ bisectLog' = << >>
    /\ testLog' = << >>
    /\ UNCHANGED <<scene, settings, geom, rigid_body, frame, was_in_contact,
                   prev_positions, collision_events, surface, op, marginLog, passLog, vse, loader>>

NextTwice == Next \/ Rescan

\* Two targets and a collider over every scene of TwiceFrames frames whose
\* gaps are a fixed function of the pair and the frame
InitTwice ==
    SetupScene([nframes |-> TwiceFrames, precs |-> BOOLEAN, subs |-> {2},
                targets |-> {Collection(<<"Ball", "Cube">>)},
                colliders |-> {Collection(<<"Ground">>)},
                bodies |-> {[o \in Objects |-> NoBody]}, solid |-> {},
                surfaces |-> { ScriptedSurface({90000, 90001}, g) :
                                  g \in [(1 .. 2) \X (1 .. TwiceFrames) -> {90000, 90001}] },
                entry |-> "init", starts |-> {1},
                sequencers |-> {NoSequencer}, loaders |-> {NoLoader}, current |-> {1}, stored |-> {<< >>},
                exports |-> {NoExport}])

SpecTwice == InitTwice /\ [][NextTwice]_vars

----------------------------------------------------------------------------
(* A mesh object that is in both collections (detection.py:39-41) *)

\* Cube is a target and a collider: product(targets, colliders) holds the
\* pair (Cube, Cube)
InitShared ==
    SetupScene([nframes |-> SharedFrames, precs |-> BOOLEAN, subs |-> {2},
                targets |-> {Collection(<<"Ball", "Cube">>)},
                colliders |-> {Collection(<<"Cube", "Ground">>)},
                bodies |-> {[o \in Objects |-> NoBody]}, solid |-> {"Ball"},
                surfaces |-> {FreeSurface({90000, 90001})},
                entry |-> "init", starts |-> {1},
                sequencers |-> {NoSequencer}, loaders |-> {NoLoader}, current |-> {1}, stored |-> {<< >>},
                exports |-> {NoExport}])

SpecShared == InitShared /\ [][Next]_vars

----------------------------------------------------------------------------
(* COLLISION_OT_detect.execute (operators.py:15-81) *)

\* mutant: only the unassigned collections are refused
ConfigurationError_UnassignedOnly ==
    IF settings.targets_collection = NoCollection THEN "No targets collection assigned"
    ELSE IF settings.colliders_collection = NoCollection THEN "No colliders collection assigned"
    ELSE "none"

\* operators.py:20-35: the error execute reports, "none" when it goes on
ConfigurationError ==
    IF settings.targets_collection = NoCollection THEN "No targets collection assigned"
    ELSE IF settings.colliders_collection = NoCollection THEN "No colliders collection assigned"
    ELSE IF Targets = << >> THEN "Targets collection contains no mesh objects"
    ELSE IF Colliders = << >> THEN "Colliders collection contains no mesh objects"
    ELSE "none"

\* operators.py:15-37: the checks, and the call of detect_collisions
ExecuteBegin ==
    /\ op.pc = "execute"
    /\ IF ConfigurationError # "none"
       THEN /\ op' = [op EXCEPT !.pc = "done", !.original_frame = scene.frame_current,
                                !.result = "CANCELLED",
                                !.report = [level |-> "ERROR", message |-> ConfigurationError]]
            /\ pc' = pc
       ELSE /\ op' = [op EXCEPT !.pc = "detect", !.original_frame = scene.frame_current]
            /\ pc' = "init"
    /\ UNCHANGED <<scene, settings, geom, rigid_body, frame, pairIdx, was_in_contact,
                   prev_positions, cur_positions, cur_velocities, bvh_cache,
                   collision_events, pair_thresholds, refine, frameSetLog, contactLog,
                   bisectLog, surface, marginLog, testLog, passLog, vse, loader>>

\* operators.py:44-51: the attributes of an item, each read from the event
\* under the key of the same name
EventKeys ==
    <<"frame", "time", "active", "passive", "position", "velocity",
      "relative_velocity", "speed">>

\* settings.events.add(): a CollisionEvent with the defaults of its properties
DefaultItem ==
    [frame |-> 0, time |-> 0, active |-> "", passive |-> "",
     position |-> [kind |-> "raw", value |-> 0], velocity |-> 0,
     relative_velocity |-> 0, speed |-> 0]

\* operators.py:44-51: the assignments item.<key> = e["<key>"] from the k-th
\* on; a key the event does not have raises KeyError and leaves the item as
\* it is
RECURSIVE FillItem(_, _, _)
FillItem(item, e, k) ==
    IF k > Len(EventKeys) THEN [item |-> item, raised |-> FALSE]
    ELSE IF EventKeys[k] \notin DOMAIN e THEN [item |-> item, raised |-> TRUE]
    ELSE FillItem([item EXCEPT ![EventKeys[k]] = e[EventKeys[k]]], e, k + 1)

\* operators.py:42-51: the loop over the events from the i-th on
RECURSIVE StoreLoop(_, _, _)
StoreLoop(events, i, items) ==
    IF i > Len(events) THEN [items |-> items, raised |-> FALSE]
    ELSE LET r == FillItem(DefaultItem, events[i], 1)
         IN  IF r.raised THEN [items |-> Append(items, r.item), raised |-> TRUE]
             ELSE StoreLoop(events, i + 1, Append(items, r.item))

\* bpy.path.abspath(path): a path relative to the blend file ("//...") is
\* resolved against the file's directory, any other path is returned as
\* it is
AbsPath(path) == IF path = "//events.json" THEN "/project/events.json" ELSE path

\* operators.py:59-74: the JSON document written to the file
ExportDocument(filepath, events) ==
    [kind |-> "json", path |-> filepath,
     metadata |-> [epsilon |-> COLLISION_EPSILON, fps |-> scene.fps,
                   frame_start |-> scene.frame_start, frame_end |-> scene.frame_end,
                   targets_collection |-> settings.targets_collection,
                   colliders_collection |-> settings.colliders_collection],
     events |-> events]

\* operators.py:53-81: the end of execute after the store loop: the export,
\* the report and the result (KeyError when the loop raised)
ExecuteEnd(events, raised) ==
    IF raised THEN [op EXCEPT !.pc = "done", !.result = "KeyError"]
    ELSE IF settings.export_json
    THEN IF AbsPath(settings.output_path) = ""
         THEN [op EXCEPT !.pc = "done", !.result = "CANCELLED",
                         !.report = [level |-> "ERROR", message |-> "No output path set"]]
         ELSE [op EXCEPT !.pc = "done", !.result = "FINISHED",
                         !.exported = ExportDocument(AbsPath(settings.output_path), events),
                         !.report = [level |-> "INFO",
                                     message |-> <<"Found", Len(events),
                                                   "collision event(s) - exported to",
                                                   AbsPath(settings.output_path)>>]]
    ELSE [op EXCEPT !.pc = "done", !.result = "FINISHED",
                    !.report = [level |-> "INFO",
                                message |-> <<"Found", Len(events), "collision event(s)">>]]

\* mutant: the scene is left at the frame the scan ended on
RestoredFrame_Last == scene.frame_current

\* operators.py:38: the frame execute sets the scene to after the scan
RestoredFrame == op.original_frame

\* operators.py:37-81: detect_collisions has returned; the frame is restored,
\* the events are stored and, when asked for, exported
ExecuteStore ==
    /\ op.pc = "detect"
    /\ pc = "returned"
    /\ FrameSetCall(RestoredFrame, 0, "restore")
    /\ LET stored == StoreLoop(collision_events, 1, << >>)
       IN  /\ settings' = [settings EXCEPT !.events = stored.items]
           /\ op' = ExecuteEnd(collision_events, stored.raised)
    /\ UNCHANGED <<geom, rigid_body, pc, frame, pairIdx, was_in_contact,
                   prev_positions, cur_positions, cur_velocities, bvh_cache,
                   collision_events, pair_thresholds, refine, contactLog,
                   bisectLog, surface, marginLog, testLog, passLog, vse, loader>>

NextOperator == Next \/ ExecuteBegin \/ ExecuteStore

\* An item a previous run left in settings.events
OldItem == [DefaultItem EXCEPT !.active = "Cube", !.passive = "Ground"]

\* The operator about to be executed, on scenes whose collections are
\* unassigned, without mesh objects, or hold a mesh object each
InitOperator ==
    SetupScene([nframes |-> OperatorFrames, precs |-> BOOLEAN, subs |-> {2},
                targets |-> {NoCollection, Collection(<< >>), Collection(<<"Lamp">>),
                             Collection(<<"Ball", "Lamp">>)},
                colliders |-> {NoCollection, Collection(<<"Lamp">>), Collection(<<"Ground">>)},
                bodies |-> {[o \in Objects |-> NoBody]}, solid |-> {},
                surfaces |-> {FreeSurface({90000, 90001})},
                entry |-> "idle", starts |-> {1},
                sequencers |-> {NoSequencer}, loaders |-> {NoLoader}, current |-> {1, 2}, stored |-> {<< >>, <<OldItem>>},
                exports |-> {NoExport, [export_json |-> TRUE, output_path |-> ""],
                             [export_json |-> TRUE, output_path |-> "//events.json"]}])

SpecOperator == InitOperator /\ [][NextOperator]_vars

----------------------------------------------------------------------------
(* COLLISION_OT_add_sounds and the sequencer helpers (sound_operators.py) *)

\* sound_operators.py:38-42: the channel above every strip of the editor,
\* given the channels of its strips
_find_next_available_channel(all_strips) ==
    IF all_strips = << >> THEN 1
    ELSE Greatest({ all_strips[k] : k \in DOMAIN all_strips }) + 1

\* mutant: strips that touch end to start count as overlapping
_strips_overlap_Closed(a, b) ==
    a.frame_final_start <= b.frame_final_end /\ b.frame_final_start <= a.frame_final_end

\* sound_operators.py:45-50: two strips share a frame (every strip of the
\* editor has frame_final_start and frame_final_end)
_strips_overlap(a, b) ==
    a.frame_final_start < b.frame_final_end /\ b.frame_final_start < a.frame_final_end

\* sound_operators.py:54: sorted(strips, key=frame_final_start), as the
\* indices of the strips; the sort is stable
SortedStrips(strips) ==
    LET before(j, k) ==
            \/ strips[j].frame_final_start < strips[k].frame_final_start
            \/ /\ strips[j].frame_final_start = strips[k].frame_final_start
               /\ j < k
        rank(k) == Cardinality({ j \in DOMAIN strips : before(j, k) }) + 1
    IN  [r \in DOMAIN strips |-> CHOOSE k \in DOMAIN strips : rank(k) = r]

\* sound_operators.py:151 and 159-198: the next free channel is taken as the
\* base channel and a strip is added on it for every event
AddSounds ==
    /\ vse.pc = "add"
    /\ LET base_channel == _find_next_available_channel(vse.existing)
       IN  vse' = [vse EXCEPT
                     !.pc = "separate",
                     !.base_channel = base_channel,
                     !.strips = [k \in DOMAIN vse.spans |->
                                   [frame_final_start |-> vse.spans[k].start,
                                    frame_final_end |-> vse.spans[k].start + vse.spans[k].length,
                                    channel |-> base_channel]]]
    /\ UNCHANGED <<detectVars, loader>>

\* sound_operators.py:54-55: the strips sorted by their start, no channel
\* occupied yet
SeparateBegin ==
    /\ vse.pc = "separate"
    /\ vse' = [vse EXCEPT !.pc = "place",
                          !.sorted_strips = SortedStrips(vse.strips),
                          !.channel_strips = << >>,
                          !.i = 1, !.ch = vse.base_channel]
    /\ UNCHANGED <<detectVars, loader>>

\* sound_operators.py:62 and 66: the channel takes the strip
ChannelFree(strip, ch, channel_strips, strips) ==
    \/ ch \notin DOMAIN channel_strips
    \/ ~ \E k \in DOMAIN channel_strips[ch] :
            _strips_overlap(strip, strips[channel_strips[ch][k]])

\* sound_operators.py:63-64 and 67-68: the strip is recorded on the channel
Placed(channel_strips, ch, s) ==
    [c \in DOMAIN channel_strips \cup {ch} |->
        IF c # ch THEN channel_strips[c]
        ELSE IF ch \in DOMAIN channel_strips THEN Append(channel_strips[ch], s)
        ELSE <<s>>]

\* sound_operators.py:57-70: one iteration of the while loop for the i-th
\* strip in start order
PlaceStep ==
    /\ vse.pc = "place"
    /\ vse.i <= Len(vse.sorted_strips)
    /\ LET s     == vse.sorted_strips[vse.i]
           strip == vse.strips[s]
       IN  IF ChannelFree(strip, vse.ch, vse.channel_strips, vse.strips)
           THEN vse' = [vse EXCEPT
                          !.channel_strips = Placed(vse.channel_strips, vse.ch, s),
                          !.strips[s].channel = vse.ch,
                          !.i = vse.i + 1, !.ch = vse.base_channel]
           ELSE vse' = [vse EXCEPT !.ch = vse.ch + 1]
    /\ UNCHANGED <<detectVars, loader>>

\* sound_operators.py:57: the loop over the sorted strips has ended
SeparateReturn ==
    /\ vse.pc = "place"
    /\ vse.i > Len(vse.sorted_strips)
    /\ vse' = [vse EXCEPT !.pc = "placed"]
    /\ UNCHANGED <<detectVars, loader>>

NextStrips == AddSounds \/ SeparateBegin \/ PlaceStep \/ SeparateReturn

\* The lengths of the sounds, in frames
StripLengths == {1, 3}

\* The strips to add: their start frames and lengths, in the order of the
\* events
SpanChoices ==
    UNION { [1 .. n -> [start : 1 .. MaxStart, length : StripLengths]] : n \in 1 .. MaxStrips }

\* The add-sounds operator about to place the strips of up to MaxStrips
\* events in an editor that is empty or holds strips on some channels
InitStrips ==
    SetupScene([nframes |-> 1, precs |-> {FALSE}, subs |-> {2},
                targets |-> {NoCollection}, colliders |-> {NoCollection},
                bodies |-> {[o \in Objects |-> NoBody]}, solid |-> {},
                surfaces |-> {FreeSurface({90000})},
                entry |-> "none", starts |-> {1},
                sequencers |-> { [NoSequencer EXCEPT !.pc = "add", !.existing = ex,
                                                     !.spans = sp] :
                                    ex \in {<< >>, <<1>>, <<3, 1>>}, sp \in SpanChoices },
                loaders |-> {NoLoader}, current |-> {1}, stored |-> {<< >>},
                exports |-> {NoExport}])

SpecStrips == InitStrips /\ [][NextStrips]_vars

----------------------------------------------------------------------------
(* The exported file and COLLISION_OT_load_json_events (operators.py:72-74,
   sound_operators.py:464-491) *)

\* json.dump of a float: a decimal literal (sign, whole part, the decimals
\* the value has: 4 for a frame, 6 for a value in millionths)
JsonNumber(n, unit, decimals) ==
    [kind |-> "number", negative |-> n < 0, whole |-> Abs(n) \div unit,
     decimals |-> decimals,
     fraction |-> IF decimals = 4 THEN (Abs(n) % unit) \div (unit \div 10000)
                  ELSE (Abs(n) % unit) \div (unit \div 1000000)]

\* json.load of a number literal: the value, in units of 1 / unit
ParseNumber(lit, unit) ==
    LET magnitude == lit.whole * unit +
                     (IF lit.decimals = 4 THEN lit.fraction * (unit \div 10000)
                      ELSE lit.fraction * (unit \div 1000000))
    IN  IF lit.negative THEN -magnitude ELSE magnitude

\* json.dump of a string
JsonString(s) == [kind |-> "string", chars |-> s]

\* json.load of a string literal
ParseString(lit) == lit.chars

\* json.dump of a position list: the components as number literals; a point
\* of a surface is written by its coordinates
JsonVector(p) ==
    IF p.kind = "raw" THEN [kind |-> "array", of |-> JsonNumber(p.value, 1000000, 6)]
    ELSE [kind |-> "array", point |-> p]

\* json.load of a position list
ParseVector(lit) ==
    IF "of" \in DOMAIN lit THEN [kind |-> "raw", value |-> ParseNumber(lit.of, 1000000)]
    ELSE lit.point

\* operators.py:73-74: json.dump of one event dict, key by key
JsonEvent(e) ==
    [k \in DOMAIN e |->
        IF k = "frame" THEN JsonNumber(e[k], FrameUnit, 4)
        ELSE IF k \in {"target", "collider", "active", "passive"} THEN JsonString(e[k])
        ELSE IF k = "position" THEN JsonVector(e[k])
        ELSE JsonNumber(e[k], 1000000, 6)]

\* operators.py:73-74: json.dump(output, f): the text of the file
JsonDump(output) ==
    [kind |-> "text",
     metadata |-> output.metadata,
     events |-> [k \in DOMAIN output.events |-> JsonEvent(output.events[k])]]

\* sound_operators.py:469-470: json.load of one event object
ParseEvent(obj) ==
    [k \in DOMAIN obj |->
        IF k = "frame" THEN ParseNumber(obj[k], FrameUnit)
        ELSE IF k \in {"target", "collider", "active", "passive"} THEN ParseString(obj[k])
        ELSE IF k = "position" THEN ParseVector(obj[k])
        ELSE ParseNumber(obj[k], 1000000)]

\* sound_operators.py:469-470: json.load(f): the dict of the file's text,
\* with the keys the text has
JsonLoad(text) ==
    IF "events" \in DOMAIN text
    THEN [events |-> [k \in DOMAIN text.events |-> ParseEvent(text.events[k])]]
    ELSE [metadata |-> << >>]

\* Files written by hand or by other tools: one without an "events" key,
\* one with an empty list, one in the older active/passive naming without
\* velocities, one in the exporter's naming
OldFiles ==
    [p \in {"/old/bare.json", "/old/empty.json", "/old/legacy.json", "/old/events.json"} |->
        IF p = "/old/bare.json" THEN [kind |-> "text", metadata |-> << >>]
        ELSE IF p = "/old/empty.json" THEN [kind |-> "text", events |-> << >>]
        ELSE IF p = "/old/legacy.json"
        THEN [kind |-> "text",
              events |-> << [frame |-> JsonNumber((3 * FrameUnit) \div 2, FrameUnit, 4),
                             active |-> JsonString("Cube"),
                             passive |-> JsonString("Ground")] >>]
        ELSE [kind |-> "text",
              events |-> << [frame |-> JsonNumber(2 * FrameUnit, FrameUnit, 4),
                             time |-> JsonNumber(83333, 1000000, 6),
                             target |-> JsonString("Ball"),
                             collider |-> JsonString("Ground"),
                             active |-> JsonString("Lamp"),
                             position |-> JsonVector([kind |-> "raw", value |-> 10000]),
                             velocity |-> JsonNumber(-1200000, 1000000, 6),
                             relative_velocity |-> JsonNumber(-1200000, 1000000, 6),
                             speed |-> JsonNumber(1200000, 1000000, 6)],
                           [frame |-> JsonNumber(FrameUnit, FrameUnit, 4),
                            target |-> JsonString("Lamp")] >>]]

\* The paths the file browser can hand to the operator
LoadPaths == DOMAIN OldFiles \cup {"", "/old/missing.json", "/project/events.json"}

\* os.path.exists(path), with the file the detect operator has exported
FileExists(path) ==
    \/ path \in DOMAIN OldFiles
    \/ op.exported # NoFile /\ op.exported.path = path

\* The text of the file at path
FileText(path) ==
    IF op.exported # NoFile /\ op.exported.path = path THEN JsonDump(op.exported)
    ELSE OldFiles[path]

\* e.get(key, default)
DictGet(e, key, default) == IF key \in DOMAIN e THEN e[key] ELSE default

\* sound_operators.py:480-488: the item stored for one event of the file
LoadedItem(e) ==
    [frame |-> DictGet(e, "frame", 0),
     time |-> DictGet(e, "time", 0),
     active |-> DictGet(e, "target", DictGet(e, "active", "")),
     passive |-> DictGet(e, "collider", DictGet(e, "passive", "")),
     position |-> DictGet(e, "position", [kind |-> "raw", value |-> 0]),
     velocity |-> DictGet(e, "velocity", 0),
     relative_velocity |-> DictGet(e, "relative_velocity", 0),
     speed |-> DictGet(e, "speed", 0)]

\* sound_operators.py:464-491: COLLISION_OT_load_json_events.execute on the
\* path chosen in the file browser, while the detect operator is not running
LoadJsonEvents ==
    /\ loader.pc = "load"
    /\ op.pc \in {"execute", "done"}
    /\ \E filepath \in LoadPaths :
         IF filepath = "" \/ ~FileExists(filepath)
         THEN /\ loader' = [loader EXCEPT
                              !.pc = "done", !.filepath = filepath, !.result = "CANCELLED",
                              !.report = [level |-> "ERROR", message |-> "File not found"]]
              /\ settings' = settings
         ELSE LET data        == JsonLoad(FileText(filepath))
                  json_events == DictGet(data, "events", << >>)
              IN  IF json_events = << >>
                  THEN /\ loader' = [loader EXCEPT
                                       !.pc = "done", !.filepath = filepath,
                                       !.result = "CANCELLED", !.data = FileText(filepath),
                                       !.report = [level |-> "WARNING",
                                                   message |-> "JSON contains no events"]]
                       /\ settings' = settings
                  ELSE /\ loader' = [loader EXCEPT
                                       !.pc = "done", !.filepath = filepath,
                                       !.result = "FINISHED", !.data = FileText(filepath),
                                       !.report = [level |-> "INFO",
                                                   message |-> <<"Loaded", Len(json_events),
                                                                 "event(s) from JSON">>]]
                       /\ settings' = [settings EXCEPT
                                         !.events = [k \in DOMAIN json_events |->
                                                        LoadedItem(json_events[k])]]
    /\ UNCHANGED <<scene, geom, rigid_body, pc, frame, pairIdx, was_in_contact,
                   prev_positions, cur_positions, cur_velocities, bvh_cache,
                   collision_events, pair_thresholds, refine, frameSetLog, contactLog,
                   bisectLog, surface, op, marginLog, testLog, passLog, vse>>

NextRoundTrip == NextOperator \/ LoadJsonEvents

\* The detect operator about to be executed with the export switched on or
\* off, and the load operator to be run once, before or after it
InitRoundTrip ==
    SetupScene([nframes |-> RoundTripFrames, precs |-> BOOLEAN, subs |-> {2},
                targets |-> {Collection(<<"Lamp">>), Collection(<<"Ball", "Lamp">>)},
                colliders |-> {Collection(<<"Ground">>)},
                bodies |-> {[o \in Objects |-> NoBody]}, solid |-> {},
                surfaces |-> {FreeSurface({90000, 90001})},
                entry |-> "idle", starts |-> {1},
                sequencers |-> {NoSequencer},
                loaders |-> {[NoLoader EXCEPT !.pc = "load"]},
                current |-> {1}, stored |-> {<< >>},
                exports |-> {NoExport,
                             [export_json |-> TRUE, output_path |-> "//events.json"]}])

SpecRoundTrip == InitRoundTrip /\ [][NextRoundTrip]_vars

----------------------------------------------------------------------------
(* Properties *)

Pass1Pcs == {"frame_set", "sample", "bvh", "pairs"}

FrameCount == scene.frame_end - scene.frame_start + 1

\* The events of pass 1: collision_events until pass 2 takes them over
CoarseEvents == IF refine = NoRefine THEN collision_events ELSE refine.events

IsPair(e, p) == e.target = p[1] /\ e.collider = p[2]

EventsOf(evs, p) == SelectSeq(evs, LAMBDA e : IsPair(e, p))

Indices(n) == [i \in 1 .. n |-> i]

\* The frames at which a contact episode of a pass-1 outcome sequence starts
EpisodeStarts(log) ==
    LET first == SelectSeq(Indices(Len(log)),
                           LAMBDA i : log[i] = "in" /\ (i = 1 \/ log[i - 1] # "in"))
    IN  [j \in DOMAIN first |-> scene.frame_start + first[j] - 1]

\* The integer frames of the events of a list
OnsetFrames(evs) == [j \in DOMAIN evs |-> IntPart(evs[j].frame)]

NoSkip(log) == \A i \in DOMAIN log : log[i] # "skip"

EventTimeOfCall(c) == c.frame * FrameUnit + c.subframe

\* An event for pair p was appended at the current frame
AppendedFor(p) ==
    /\ Len(collision_events') = Len(collision_events) + 1
    /\ SubSeq(collision_events', 1, Len(collision_events)) = collision_events
    /\ IsPair(collision_events'[Len(collision_events')], p)
    /\ collision_events'[Len(collision_events')].frame = frame * FrameUnit

\* One step of pass 1, as C1 requires it
Pass1Step ==
    pc \in Pass1Pcs =>
       /\ \A p \in PairSet :
             /\ was_in_contact'[p] \in BOOLEAN
             /\ (~was_in_contact[p] /\ was_in_contact'[p]) <=> AppendedFor(p)
       /\ collision_events' # collision_events => \E p \in PairSet : AppendedFor(p)

\* C1: in pass 1, at every step and for every pair, the overlap state stays
\* or flips, and an event for the pair is appended at the current frame
\* exactly when the state went from not touching to touching; nothing else
\* changes the event list.
C1_OnsetIffRisingEdge == [][Pass1Step]_vars

C1_Witness ==
    /\ pc = "pairs"
    /\ \E p \in PairSet :
          /\ contactLog[p] = <<"out", "in", "out">>
          /\ Len(EventsOf(collision_events, p)) = 1

\* C2: the first frame_set calls are exactly frame_start, frame_start + 1,
\* ..., frame_end, each with subframe 0, one per frame, and pass 1 issues
\* no other call.
C2_SequentialScan ==
    LET sampled == IF pc = "init" THEN 0
                   ELSE IF pc = "frame_set" THEN frame - scene.frame_start
                   ELSE frame - scene.frame_start + 1
    IN  /\ \A i \in DOMAIN frameSetLog :
              i <= FrameCount =>
                 /\ frameSetLog[i].frame = scene.frame_start + i - 1
                 /\ frameSetLog[i].subframe = 0
        /\ pc \in Pass1Pcs \cup {"init"} => Len(frameSetLog) = sampled
        /\ pc \notin Pass1Pcs \cup {"init"} => Len(frameSetLog) >= FrameCount

C2_Witness ==
    /\ pc = "pass1_done"
    /\ frameSetLog = [i \in 1 .. NumFrames |->
                        [frame |-> scene.frame_start + i - 1, subframe |-> 0, phase |-> "pass1"]]

\* C3: a frame_set call with a fractional time, or to a time before the
\* previous call's, is issued only in precision mode and only after the
\* last frame of the range was sampled; no pass-1 call follows a pass-2 call.
C3_RefinementAfterScan ==
    /\ \A i \in DOMAIN frameSetLog :
          (\/ frameSetLog[i].subframe # 0
           \/ (i > 1 /\ EventTimeOfCall(frameSetLog[i]) < EventTimeOfCall(frameSetLog[i - 1])))
          => (settings.precision_mode /\ i > FrameCount)
    /\ Len(frameSetLog) > FrameCount => (settings.precision_mode /\ pc \notin Pass1Pcs)
    /\ \A i, j \in DOMAIN frameSetLog :
          (i < j /\ frameSetLog[i].phase # "pass1") => frameSetLog[j].phase # "pass1"

C3_Witness ==
    /\ settings.precision_mode
    /\ pc = "returned"
    /\ \E i \in DOMAIN frameSetLog :
          /\ i > FrameCount
          /\ frameSetLog[i].subframe # 0
          /\ EventTimeOfCall(frameSetLog[i]) < EventTimeOfCall(frameSetLog[i - 1])

\* C4 (as claimed): the returned list is in non-decreasing order of frame
\* and of time.
C4_OutputSorted ==
    pc = "returned" =>
       \A i, j \in DOMAIN collision_events :
          i < j => /\ collision_events[i].frame <= collision_events[j].frame
                   /\ collision_events[i].time <= collision_events[j].time

\* t lies in (F - 1, F] for F > frame_start, and is F for F = frame_start
InOnsetInterval(t, F) ==
    IF F > scene.frame_start
    THEN (F - 1) * FrameUnit < t /\ t <= F * FrameUnit
    ELSE t = F * FrameUnit

\* C5: the time _bisect_onset returns for an onset at frame F > frame_start
\* lies in (F - 1, F], and so does the refined event's frame; an onset at
\* frame_start is not bisected and keeps its frame.
C5_RefinedWithinFrame ==
    /\ pc \in {"refine_sample", "refine_velocity"} =>
          /\ InOnsetInterval(refine.precise_frame, IntPart(refine.events[refine.i].frame))
          /\ bisectLog[refine.i].bisected <=>
                IntPart(refine.events[refine.i].frame) > scene.frame_start
    /\ refine # NoRefine =>
          \A i \in DOMAIN refine.refined :
             InOnsetInterval(refine.refined[i].frame, IntPart(refine.events[i].frame))

C5_Witness ==
    /\ settings.substeps = SubstepsMax
    /\ settings.precision_mode
    /\ pc = "returned"
    /\ \E i \in DOMAIN collision_events :
          /\ bisectLog[i].bisected
          /\ \A k \in DOMAIN bisectLog[i].probes : bisectLog[i].probes[k].result = "in"
          /\ collision_events[i].frame - (bisectLog[i].frame_hi - 1) * FrameUnit
                = 156 * 4 * settings.substeps

\* C6 (as claimed): a pair one of whose objects had no geometry at the last
\* sampled frame is not touching after that frame.
C6_AbsentMeansNotTouching ==
    \A p \in PairSet :
       (/\ pc \in Pass1Pcs \cup {"pass1_done"}
        /\ contactLog[p] # << >>
        /\ contactLog[p][Len(contactLog[p])] = "skip")
       => ~was_in_contact[p]

\* C7: for a pair tested at every frame, the events of the pair are one per
\* contact episode, each at the first frame of its episode, and refinement
\* keeps their number.
C7_OneEventPerEpisode ==
    pc # "init" =>
       \A p \in PairSet :
          NoSkip(contactLog[p]) =>
             /\ OnsetFrames(EventsOf(CoarseEvents, p)) = EpisodeStarts(contactLog[p])
             /\ pc = "returned" =>
                   Len(EventsOf(collision_events, p)) = Len(EpisodeStarts(contactLog[p]))

C7_Witness ==
    /\ pc = "returned"
    /\ \E p \in PairSet :
          /\ contactLog[p] = <<"in", "out", "in">>
          /\ Len(EventsOf(collision_events, p)) = 2

\* The onsets (target, collider, frame) of a scan over the pairs prs alone,
\* frame by frame and pair by pair, from frame index k and pair index i on
RECURSIVE ReferenceScan(_, _, _)
ReferenceScan(prs, k, i) ==
    IF k > FrameCount THEN << >>
    ELSE IF i > Len(prs) THEN ReferenceScan(prs, k + 1, 1)
    ELSE LET log == contactLog[prs[i]]
             rising == log[k] = "in" /\ (k = 1 \/ log[k - 1] # "in")
         IN  (IF rising THEN << <<prs[i][1], prs[i][2], scene.frame_start + k - 1>> >>
              ELSE << >>) \o ReferenceScan(prs, k, i + 1)

Without(evs, obj) == SelectSeq(evs, LAMBDA e : e.target # obj /\ e.collider # obj)

\* C8: an object without polygons at every time is in no event, and the
\* events of the other pairs are those of the scan over the other pairs
\* alone: every other pair is tested at every frame and the events are, in
\* order, the rising edges of the other pairs' outcomes.
C8_EmptyObjectIsInert ==
    \A obj \in AllObjects :
       geom[obj] = <<"never">> =>
          /\ Without(collision_events, obj) = collision_events
          /\ Without(CoarseEvents, obj) = CoarseEvents
          /\ pc \notin Pass1Pcs \cup {"init"} =>
                LET others == SelectSeq(Pairs, LAMBDA p : p[1] # obj /\ p[2] # obj)
                IN  /\ \A i \in DOMAIN others :
                          /\ Len(contactLog[others[i]]) = FrameCount
                          /\ NoSkip(contactLog[others[i]])
                    /\ [j \in DOMAIN CoarseEvents |->
                           <<CoarseEvents[j].target, CoarseEvents[j].collider,
                             IntPart(CoarseEvents[j].frame)>>]
                         = ReferenceScan(others, 1, 1)
                    /\ pc = "returned" => Len(collision_events) = Len(CoarseEvents)

C8_Witness ==
    /\ pc = "returned"
    /\ geom["Ball"] = <<"never">>
    /\ \E i \in DOMAIN collision_events : IsPair(collision_events[i], <<"Cube", "Ground">>)
    /\ contactLog[<<"Ball", "Ground">>] = <<"skip", "skip", "skip">>

\* The pair was tested at every frame, out of contact before F and in
\* contact from F on
SingleOnsetAt(p, F) ==
    /\ Len(contactLog[p]) = FrameCount
    /\ \A k \in DOMAIN contactLog[p] :
          contactLog[p][k] = IF scene.frame_start + k - 1 < F THEN "out" ELSE "in"

\* The returned list holds exactly one event of the pair, at frame F
OneEventAt(p, F) ==
    /\ Len(EventsOf(collision_events, p)) = 1
    /\ EventsOf(collision_events, p)[1].frame = F * FrameUnit

\* the velocities of detection.py:70, before rounding
RawVelocity(o, F) == (FramePos(o, F) - FramePos(o, F - 1)) * scene.fps

\* C9 (as claimed): in non-precision mode a pair out of contact at
\* frame_start .. F - 1 and in contact from F on yields exactly one event,
\* at frame F, whose velocities are the finite differences themselves.
C9_ExactVelocity ==
    (pc = "returned" /\ ~settings.precision_mode) =>
       \A p \in PairSet : \A F \in Frames :
          (F > scene.frame_start /\ SingleOnsetAt(p, F)) =>
             /\ OneEventAt(p, F)
             /\ LET e == EventsOf(collision_events, p)[1]
                IN  /\ e.velocity = RawVelocity(p[1], F)
                    /\ e.relative_velocity = RawVelocity(p[1], F) - RawVelocity(p[2], F)
                    /\ e.speed = Abs(RawVelocity(p[1], F) - RawVelocity(p[2], F))

\* C9 (amended): in non-precision mode a pair out of contact at
\* frame_start .. F - 1 and in contact from F on yields exactly one event,
\* at frame F, whose velocities are the finite differences rounded to 4
\* decimals: velocity = round4((pos_t(F) - pos_t(F-1)) * fps),
\* relative velocity = round4 of the difference of the unrounded target and
\* collider velocities, speed = round4 of the magnitude of that difference.
C9_RoundedVelocity ==
    (pc = "returned" /\ ~settings.precision_mode) =>
       \A p \in PairSet : \A F \in Frames :
          (F > scene.frame_start /\ SingleOnsetAt(p, F)) =>
             /\ OneEventAt(p, F)
             /\ LET e == EventsOf(collision_events, p)[1]
                IN  /\ e.velocity = Round4(RawVelocity(p[1], F))
                    /\ e.relative_velocity = Round4(RawVelocity(p[1], F) - RawVelocity(p[2], F))
                    /\ e.speed = Round4(Abs(RawVelocity(p[1], F) - RawVelocity(p[2], F)))

C9_Witness ==
    /\ pc = "returned"
    /\ ~settings.precision_mode
    /\ SingleOnsetAt(<<"Ball", "Ground">>, scene.frame_start + 1)
    /\ OneEventAt(<<"Ball", "Ground">>, scene.frame_start + 1)
    /\ collision_events[1].velocity # RawVelocity("Ball", scene.frame_start + 1)

\* C10 (as claimed): with substeps = 8 the refined frame of a bisected onset
\* at F lies strictly between F - 1 and F.
C10_StrictlyInside ==
    (settings.precision_mode /\ settings.substeps = 8 /\ refine # NoRefine) =>
       \A i \in DOMAIN refine.refined :
          bisectLog[i].bisected =>
             /\ (bisectLog[i].frame_hi - 1) * FrameUnit < refine.refined[i].frame
             /\ refine.refined[i].frame < bisectLog[i].frame_hi * FrameUnit

\* C10 (amended): with substeps = 8 the bisection probes three midpoints and
\* the refined frame t of a bisected onset at F satisfies F - 1 < t <= F, is
\* a multiple of 1/8, and is below F exactly when the contact test held at
\* one of the probed midpoints; otherwise t = F.
C10_InsideIffProbeHit ==
    (settings.precision_mode /\ settings.substeps = 8 /\ refine # NoRefine) =>
       \A i \in DOMAIN refine.refined :
          bisectLog[i].bisected =>
             LET t  == refine.refined[i].frame
                 hi == bisectLog[i].frame_hi * FrameUnit
             IN  /\ Len(bisectLog[i].probes) = 3
                 /\ hi - FrameUnit < t /\ t <= hi
                 /\ (hi - t) % (FrameUnit \div 8) = 0
                 /\ t < hi <=> \E k \in DOMAIN bisectLog[i].probes :
                                   bisectLog[i].probes[k].result = "in"

C10_Witness ==
    /\ pc = "returned"
    /\ settings.precision_mode
    /\ settings.substeps = 8
    /\ \E i \in DOMAIN collision_events :
          /\ bisectLog[i].bisected
          /\ bisectLog[i].probes[1].result = "out"
          /\ bisectLog[i].probes[2].result = "out"
          /\ bisectLog[i].probes[3].result = "in"
          /\ collision_events[i].frame = bisectLog[i].frame_hi * FrameUnit - FrameUnit \div 8

\* The contact tests of pass 1 on the pair, in order
PassOneTests(p) == SelectSeq(testLog, LAMBDA r : r.pair = p /\ r.phase = "pass1")

\* The outcomes of the frames at which the pair was tested
Tested(log) == SelectSeq(log, LAMBDA x : x # "skip")

\* The gaps fall to a minimum and then rise: one approach
OneApproach(tests) ==
    \E m \in DOMAIN tests :
       /\ \A i \in 1 .. m - 1 : tests[i].gap >= tests[i + 1].gap
       /\ \A i \in m .. Len(tests) - 1 : tests[i].gap <= tests[i + 1].gap

MinGapIs(tests, g) ==
    /\ \E i \in DOMAIN tests : tests[i].gap = g
    /\ \A i \in DOMAIN tests : tests[i].gap >= g

MarginAtEntry(o) ==
    IF ~rigid_body[o].present THEN DEFAULT_MARGIN
    ELSE IF \E i \in DOMAIN marginLog : marginLog[i].obj = o
         THEN marginLog[CHOOSE i \in DOMAIN marginLog :
                          /\ marginLog[i].obj = o
                          /\ \A j \in DOMAIN marginLog : marginLog[j].obj = o => i <= j].old
         ELSE rigid_body[o].collision_margin

\* C12: once the set-up has run, the threshold of every pair is the margin
\* of the target plus the margin of the collider plus COLLISION_EPSILON,
\* the margin of an object being its rigid body's collision margin and
\* DEFAULT_MARGIN when it has no rigid body.
C12_ThresholdIsMarginSum ==
    pc # "init" =>
       /\ DOMAIN pair_thresholds = PairSet
       /\ \A p \in PairSet :
             pair_thresholds[p] = MarginAtEntry(p[1]) + MarginAtEntry(p[2]) + COLLISION_EPSILON

C12_Witness ==
    /\ pc = "frame_set"
    /\ frameSetLog = << >>
    /\ ~rigid_body["Ball"].present
    /\ rigid_body["Ground"] = Body(5000)
    /\ pair_thresholds[<<"Ball", "Ground">>] = 55000

\* C13: the thresholds are there before the first frame is sampled and are
\* never written again, and every contact test, in pass 1 and in the
\* bisection, is given the threshold computed from the margins the pair had
\* when the scan was entered, whatever the margins have become since.
C13_ThresholdComputedOnce ==
    /\ (pc # "init" /\ frameSetLog = << >>) => DOMAIN pair_thresholds = PairSet
    /\ \A i \in DOMAIN testLog :
          testLog[i].threshold = MarginAtEntry(testLog[i].pair[1])
                                 + MarginAtEntry(testLog[i].pair[2]) + COLLISION_EPSILON

C13_Witness ==
    /\ pc = "returned"
    /\ marginLog # << >>
    /\ _collision_threshold("Ball", "Ground") # pair_thresholds[<<"Ball", "Ground">>]
    /\ \E i, j \in DOMAIN testLog :
          /\ marginLog[1].tests < i
          /\ marginLog[1].tests < j
          /\ testLog[i].phase = "pass1"
          /\ testLog[j].phase = "bisect"
          /\ testLog[i].threshold = testLog[j].threshold

\* The onset being refined was bisected and _bisect_onset has returned
BisectDone ==
    /\ pc = "refine_sample"
    /\ bisectLog[refine.i].bisected

\* C14: for every onset and every even substeps = 2S from 4 to 64, in a
\* scene whose contact is a function of the time, the time _bisect_onset
\* returns with substeps = 2S, which is the time the refinement arrived at,
\* differs from the time it returns with substeps = S by at most 1/S of a
\* frame.
C14_DoublingMovesByAtMostOneOverS ==
    (BisectDone /\ settings.substeps % 2 = 0 /\ settings.substeps >= 4) =>
       LET ev  == refine.events[refine.i]
           F   == IntPart(ev.frame)
           S   == settings.substeps \div 2
           tS  == _bisect_onset(ev.target, ev.collider, F - 1, F, S, refine.threshold)
           t2S == _bisect_onset(ev.target, ev.collider, F - 1, F, 2 * S, refine.threshold)
       IN  /\ refine.precise_frame = t2S
           /\ Abs((F * FrameUnit - t2S) - (F * FrameUnit - tS)) * S <= FrameUnit

C14_Witness ==
    /\ BisectDone
    /\ settings.substeps = 16
    /\ LET ev == refine.events[refine.i]
           F  == IntPart(ev.frame)
       IN  /\ refine.precise_frame = F * FrameUnit - 7 * (FrameUnit \div 16)
           /\ _bisect_onset(ev.target, ev.collider, F - 1, F, 8, refine.threshold)
                 = F * FrameUnit - 3 * (FrameUnit \div 8)

\* The contact test holds at the instant j 64ths of a frame after F - 1
HoldsAt(obj_a, obj_b, F, j) ==
    LET t == (F - 1) * FrameUnit + j * (FrameUnit \div 64)
    IN  \/ j = 64
        \/ /\ HasPolygons(obj_a, t)
           /\ HasPolygons(obj_b, t)
           /\ ProfileNear(t)

\* The earliest instant of (F - 1, F], in 64ths, at which the test holds
Earliest(obj_a, obj_b, F) ==
    (F - 1) * FrameUnit
    + Least({ j \in 1 .. 64 : HoldsAt(obj_a, obj_b, F, j) }) * (FrameUnit \div 64)

\* The test fails before some instant of (F - 1, F] and holds from it on
Monotone(obj_a, obj_b, F) ==
    \A j \in 1 .. 63 : HoldsAt(obj_a, obj_b, F, j) => HoldsAt(obj_a, obj_b, F, j + 1)

\* 2 ^ max(1, ceil(log2(n)))
Resolution(n) == Least({ r \in {2, 4, 8, 16, 32, 64} : r >= n })

\* C15 (as claimed): the refined onset of a bisected onset at F is within
\* 1 / 2^iterations of a frame of the earliest instant of (F - 1, F] at
\* which the contact test holds.
C15_WithinResolutionOfEarliest ==
    BisectDone =>
       LET ev == refine.events[refine.i]
           F  == IntPart(ev.frame)
       IN  Abs(refine.precise_frame - Earliest(ev.target, ev.collider, F))
              * Resolution(settings.substeps) <= FrameUnit

\* C15 (amended): when the contact test fails at every instant of (F - 1, F]
\* before some instant c and holds from c on, the refined onset is within
\* 1 / 2^iterations of a frame of c: it is round(hi, 4) for a time hi with
\* c <= hi < c + 1 / 2^iterations.
C15_WithinResolutionWhenMonotone ==
    BisectDone =>
       LET ev == refine.events[refine.i]
           F  == IntPart(ev.frame)
           c  == Earliest(ev.target, ev.collider, F)
           hi == refine.hi_raw
       IN  Monotone(ev.target, ev.collider, F) =>
              /\ Abs(refine.precise_frame - c) * Resolution(settings.substeps) <= FrameUnit
              /\ c <= hi
              /\ (hi - c) * Resolution(settings.substeps) < FrameUnit
              /\ refine.precise_frame = RoundHalfEven(hi, 4 * settings.substeps) * 4 * settings.substeps

C15_Witness ==
    /\ BisectDone
    /\ settings.substeps = 16
    /\ surface.onset = 33
    /\ surface.blip = 0
    /\ geom["Ground"] = <<"always">>
    /\ refine.hi_raw = (IntPart(refine.events[refine.i].frame) - 1) * FrameUnit
                          + 9 * (FrameUnit \div 16)

\* max(1, ceil(log2(n))) for n in 2 .. 64
ExpectedProbes(n) == CHOOSE k \in 1 .. 6 : 2^k = Resolution(n)

\* The time re-samplings of the bisections: each finished bisection has made
\* ExpectedProbes(substeps) of them, the running one refine.k, and the
\* frame_set calls of the bisections are as many
ProbeCount ==
    /\ ExpectedProbes(2) = 1 /\ ExpectedProbes(8) = 3 /\ ExpectedProbes(64) = 6
    /\ \A i \in DOMAIN bisectLog :
          Len(bisectLog[i].probes) =
             IF ~bisectLog[i].bisected THEN 0
             ELSE IF pc = "bisect" /\ i = Len(bisectLog) THEN refine.k
             ELSE ExpectedProbes(settings.substeps)
    /\ pc = "bisect" => refine.k <= ExpectedProbes(settings.substeps)
    /\ Len(SelectSeq(frameSetLog, LAMBDA c : c.phase = "bisect"))
          = Len(SelectSeq(bisectLog, LAMBDA b : b.bisected)) * ExpectedProbes(settings.substeps)
            - (IF pc = "bisect" THEN ExpectedProbes(settings.substeps) - refine.k ELSE 0)

AllEvents ==
    { collision_events[i] : i \in DOMAIN collision_events }
    \cup (IF refine = NoRefine THEN {}
          ELSE { refine.refined[i] : i \in DOMAIN refine.refined })

\* The point of the surface of object `on` nearest to the position of
\* object `of`, both taken at time t; the rounded position of `of` when
\* `on` has no polygons at t
NearestOn(on, of, t) ==
    IF HasPolygons(on, t)
    THEN [kind |-> "nearest", on |-> on, at |-> t, to |-> EvalPos(of, t)]
    ELSE [kind |-> "raw", value |-> Round4(EvalPos(of, t))]

\* C17 (as claimed): the position of an event is the point of the target's
\* surface nearest to the collider's position at the onset time, and the
\* collider's position when the target has no geometry then.
C17_NearestOnTarget ==
    \A e \in AllEvents : e.position = NearestOn(e.target, e.collider, e.frame)

\* C17 (amended): the position of an event is the point of the collider's
\* surface nearest to the target's position at the onset time, and the
\* target's position when the collider has no geometry then.
C17_NearestOnCollider ==
    \A e \in AllEvents : e.position = NearestOn(e.collider, e.target, e.frame)

C17_Witness ==
    /\ pc = "returned"
    /\ settings.precision_mode
    /\ \E e \in AllEvents :
          /\ e.frame % FrameUnit # 0
          /\ e.target = "Ball"
          /\ e.position = [kind |-> "nearest", on |-> "Ground", at |-> e.frame,
                           to |-> EvalPos("Ball", e.frame)]
          /\ EvalPos("Ball", e.frame) # EvalPos("Ground", e.frame)

\* C18: in pass 2 the time delta of the finite difference is zero or
\* negative exactly for an onset at the first frame of the range; the
\* refined event then keeps the frame, and its target velocity, relative
\* velocity and speed are those of the coarse event, which are zero because
\* the coarse pass had no previous sample.
C18_DegenerateDeltaKeepsCoarse ==
    /\ pc = "refine_velocity" =>
          LET half   == FrameUnit \div (2 * settings.substeps)
              first  == scene.frame_start * FrameUnit
              prev_t == IF refine.precise_frame - half > first
                        THEN refine.precise_frame - half ELSE first
          IN  (refine.precise_frame - prev_t <= 0) <=> ~bisectLog[refine.i].bisected
    /\ refine # NoRefine =>
          \A i \in DOMAIN refine.refined :
             ~bisectLog[i].bisected =>
                /\ refine.events[i].frame = scene.frame_start * FrameUnit
                /\ refine.refined[i].frame = refine.events[i].frame
                /\ refine.refined[i].velocity = refine.events[i].velocity
                /\ refine.refined[i].relative_velocity = refine.events[i].relative_velocity
                /\ refine.refined[i].speed = refine.events[i].speed
                /\ refine.refined[i].velocity = 0
                /\ refine.refined[i].relative_velocity = 0
                /\ refine.refined[i].speed = 0

C18_Witness ==
    /\ pc = "returned"
    /\ settings.precision_mode
    /\ Len(collision_events) = 2
    /\ ~bisectLog[1].bisected
    /\ collision_events[1].target = "Ball"
    /\ collision_events[1].frame = scene.frame_start * FrameUnit
    /\ collision_events[1].speed = 0
    /\ bisectLog[2].bisected
    /\ collision_events[2].target = "Ball"
    /\ collision_events[2].speed # 0

\* A collection is unassigned or holds no mesh object
Unusable(collection) ==
    \/ collection = NoCollection
    \/ \A i \in DOMAIN collection.objects : ObjType(collection.objects[i]) # "MESH"

\* C19: execute, once past its checks, has reported an error and returned
\* CANCELLED when the targets or the colliders collection is unassigned or
\* holds no mesh object; the scan was then not started: no frame_set was
\* issued, the current frame and the stored events are those from before
\* the call.  With usable collections the scan is started.
C19_BadConfigurationCancels ==
    op.pc \notin {"none", "execute"} =>
       LET bad == \/ Unusable(settings.targets_collection)
                  \/ Unusable(settings.colliders_collection)
       IN  /\ bad => op.result = "CANCELLED"
           /\ bad =>
                 /\ op.pc = "done"
                 /\ op.report.level = "ERROR"
                 /\ pc = "idle"
                 /\ frameSetLog = << >>
                 /\ scene.frame_current = op.original_frame
                 /\ scene.subframe = 0
                 /\ settings.events = op.events_before
                 /\ collision_events = << >>
           /\ ~bad => pc # "idle"

C19_Witness ==
    /\ op.result = "CANCELLED"
    /\ settings.targets_collection = Collection(<<"Lamp">>)
    /\ settings.colliders_collection = Collection(<<"Ground">>)
    /\ settings.events = <<OldItem>>
    /\ scene.frame_current = 2
    /\ op.report = [level |-> "ERROR", message |-> "Targets collection contains no mesh objects"]

\* C20 (as claimed): when detect_collisions has returned at least one event,
\* execute finishes and settings.events holds one item per returned event,
\* in order, with the event's frame, time, target, collider, position,
\* velocity, relative velocity and speed.
C20_StoredMatchesReturned ==
    (op.pc = "done" /\ op.result # "CANCELLED" /\ collision_events # << >>) =>
       /\ op.result = "FINISHED"
       /\ Len(settings.events) = Len(collision_events)
       /\ \A i \in DOMAIN collision_events :
             LET item == settings.events[i]
                 e    == collision_events[i]
             IN  /\ item.frame = e.frame
                 /\ item.time = e.time
                 /\ item.active = e.target
                 /\ item.passive = e.collider
                 /\ item.position = e.position
                 /\ item.velocity = e.velocity
                 /\ item.relative_velocity = e.relative_velocity
                 /\ item.speed = e.speed

\* C21: the coarse-event sequences of any two pass-1 scans of the same frame
\* range, over a scene whose geometry, positions and gaps are a fixed
\* function of the time, are identical: same pairs, same frames, same
\* count, same order (and same fields).
C21_PassOneIdempotent ==
    \A i, j \in DOMAIN passLog : passLog[i] = passLog[j]

C21_Witness ==
    /\ Len(passLog) = 2
    /\ settings.precision_mode
    /\ Len(passLog[2]) >= 2
    /\ \E i, j \in DOMAIN passLog[2] :
          /\ i < j
          /\ passLog[2][i].target = "Cube"
          /\ passLog[2][j].target = "Ball"
          /\ passLog[2][i].frame < passLog[2][j].frame
    /\ \E p \in PairSet : was_in_contact[p]

\* C22: while the pairs of a pass-1 frame are tested, the positions are
\* those of every object at that frame and the proxies are exactly those of
\* the objects that have polygons at that frame, each built at that frame;
\* no pair was tested at a frame before its sampling was complete, and the
\* surface point of every coarse event comes from a proxy of the event's
\* frame.
C22_SampledBeforeTested ==
    /\ pc = "pairs" =>
          /\ SceneTime = frame * FrameUnit
          /\ DOMAIN cur_positions = AllObjects
          /\ \A o \in AllObjects : cur_positions[o] = EvalPos(o, frame * FrameUnit)
          /\ DOMAIN bvh_cache = { o \in AllObjects : HasPolygons(o, frame * FrameUnit) }
          /\ \A o \in DOMAIN bvh_cache :
                bvh_cache[o] = [kind |-> "bvh", obj |-> o, at |-> frame * FrameUnit]
    /\ pc \in {"frame_set", "sample", "bvh"} =>
          \A i \in DOMAIN testLog : testLog[i].at < frame * FrameUnit
    /\ \A i \in DOMAIN CoarseEvents :
          CoarseEvents[i].position.kind = "nearest" =>
             CoarseEvents[i].position.at = CoarseEvents[i].frame

C22_Witness ==
    /\ pc = "pairs"
    /\ frame = scene.frame_start + 1
    /\ pairIdx = 3
    /\ geom["Ball"] = <<"gap", scene.frame_start + 1>>
    /\ DOMAIN bvh_cache = {"Cube", "Ground"}
    /\ \E i \in DOMAIN testLog :
          testLog[i].at = frame * FrameUnit /\ testLog[i].pair = <<"Cube", "Ground">>
    /\ \E i \in DOMAIN testLog :
          testLog[i].at = scene.frame_start * FrameUnit /\ testLog[i].pair = <<"Ball", "Ground">>

\* The frame_set calls of one phase, in order
CallsOf(phase) == SelectSeq(frameSetLog, LAMBDA c : c.phase = phase)

\* max(t - 0.5 / substeps, frame_start)
BackSampleTime(t) ==
    LET back == t - FrameUnit \div (2 * settings.substeps)
    IN  IF back >= scene.frame_start * FrameUnit THEN back ELSE scene.frame_start * FrameUnit

\* round4 of (pos(t) - pos(tp)) / ((t - tp) / fps), in millionths per
\* second; the fraction FrameUnit / (t - tp) is reduced first
BackwardDifference(o, t, tp) ==
    LET g == Gcd(FrameUnit, t - tp)
    IN  RoundHalfEven((EvalPos(o, t) - EvalPos(o, tp)) * scene.fps * (FrameUnit \div g),
                      ((t - tp) \div g) * 100) * 100

\* C23: for every refined event at time t, pass 2 samples the positions at
\* t and at t_prev = max(t - 0.5 / substeps, frame_start), and when
\* t_prev < t the velocities are the backward differences
\* (pos(t) - pos(t_prev)) / ((t - t_prev) / fps) of the target and of the
\* collider; every time pass 2 sets the scene to lies within
\* [frame_start, frame_end].
C23_BackwardDifference ==
    /\ refine # NoRefine =>
          \A i \in DOMAIN refine.refined :
             LET e  == refine.refined[i]
                 t  == e.frame
                 tp == BackSampleTime(t)
             IN  /\ EventTimeOfCall(CallsOf("refine")[i]) = t
                 /\ EventTimeOfCall(CallsOf("velocity")[i]) = tp
                 /\ tp < t =>
                       /\ e.velocity = BackwardDifference(e.target, t, tp)
                       /\ e.velocity - e.relative_velocity \in
                             { BackwardDifference(e.collider, t, tp) + d : d \in {-100, 0, 100} }
                       /\ e.speed = Abs(e.relative_velocity)
    /\ \A k \in DOMAIN frameSetLog :
          frameSetLog[k].phase # "pass1" =>
             /\ scene.frame_start * FrameUnit <= EventTimeOfCall(frameSetLog[k])
             /\ EventTimeOfCall(frameSetLog[k]) <= scene.frame_end * FrameUnit
             /\ frameSetLog[k].subframe >= 0
             /\ frameSetLog[k].subframe < FrameUnit

C23_Witness ==
    /\ pc = "returned"
    /\ settings.substeps = 8
    /\ Len(collision_events) = 1
    /\ collision_events[1].frame = 2 * FrameUnit - FrameUnit \div 8
    /\ CallsOf("velocity")[1] = [frame |-> 1, subframe |-> FrameUnit - 3 * (FrameUnit \div 16),
                                   phase |-> "velocity"]
    /\ collision_events[1].velocity < 0
    /\ collision_events[1].relative_velocity < collision_events[1].velocity

\* The last contact test of pass 1 on the pair
LastTest(p) == PassOneTests(p)[Len(PassOneTests(p))]

\* The pair was tested at the last frame pass 1 sampled for it
TestedLast(p) ==
    /\ contactLog[p] # << >>
    /\ contactLog[p][Len(contactLog[p])] # "skip"

AtStartAndStill(e) ==
    /\ e.frame = scene.frame_start * FrameUnit
    /\ e.time = EventTime(scene.frame_start * FrameUnit)
    /\ e.velocity = 0
    /\ e.relative_velocity = 0
    /\ e.speed = 0

\* C25: no pair is touching before the first frame is tested; a pair in
\* contact at frame_start has an event at frame_start, the first of its
\* events, and every event at frame_start, coarse or refined, carries zero
\* target velocity, zero relative velocity and speed 0.
C25_StartsNotTouching ==
    /\ (pc \in {"frame_set", "sample", "bvh"} /\ frame = scene.frame_start) =>
          \A p \in PairSet : ~was_in_contact[p]
    /\ \A p \in PairSet :
          (contactLog[p] # << >> /\ contactLog[p][1] = "in") =>
             /\ EventsOf(CoarseEvents, p) # << >>
             /\ AtStartAndStill(EventsOf(CoarseEvents, p)[1])
             /\ pc = "returned" =>
                   /\ EventsOf(collision_events, p) # << >>
                   /\ AtStartAndStill(EventsOf(collision_events, p)[1])
    /\ \A e \in AllEvents :
          e.frame = scene.frame_start * FrameUnit => AtStartAndStill(e)

C25_Witness ==
    /\ pc = "returned"
    /\ settings.precision_mode
    /\ contactLog[<<"Ball", "Ground">>] = <<"in", "in", "in">>
    /\ contactLog[<<"Cube", "Ground">>] = <<"in", "out", "in">>
    /\ Len(collision_events) = 3
    /\ AtStartAndStill(collision_events[1])
    /\ AtStartAndStill(collision_events[2])
    /\ FramePos("Ball", scene.frame_start + 1) # FramePos("Ball", scene.frame_start)

\* One iteration of the pair loop of pass 1, as C26 requires it
PairStep ==
    (pc = "pairs" /\ pairIdx <= Len(Pairs) /\ pairIdx' # pairIdx) =>
       LET key == Pairs[pairIdx]
       IN  /\ \A p \in PairSet \ {key} : was_in_contact'[p] = was_in_contact[p]
           /\ PairSkipped(CacheGet(key[1]), CacheGet(key[2])) =>
                 /\ was_in_contact'[key] = was_in_contact[key]
                 /\ collision_events' = collision_events

\* C26: an iteration of the pair loop that skips its pair, because one of
\* the two objects has no geometry at the frame, leaves the pair's overlap
\* state as it was and appends no event; every iteration leaves the
\* overlap state of every other pair as it was.
C26_SkipLeavesState == [][PairStep]_vars

C26_Witness ==
    /\ pc = "pairs"
    /\ pairIdx = 2
    /\ contactLog[<<"Ball", "Ground">>] = <<"in", "skip">>
    /\ contactLog[<<"Cube", "Ground">>] = <<"out">>
    /\ was_in_contact[<<"Ball", "Ground">>]
    /\ ~was_in_contact[<<"Cube", "Ground">>]
    /\ Len(collision_events) = 1

\* The interval of _bisect_onset after refine.k iterations
BisectInterval ==
    pc = "bisect" =>
       LET frame_hi == bisectLog[Len(bisectLog)].frame_hi
       IN  /\ (refine.hi - refine.lo) * 2^refine.k = FrameUnit
           /\ (frame_hi - 1) * FrameUnit <= refine.lo
           /\ refine.lo < refine.hi
           /\ refine.hi <= frame_hi * FrameUnit
           /\ Len(bisectLog[Len(bisectLog)].probes) = refine.k

\* One iteration of the loop of _bisect_onset, as C27 requires it
BisectMove ==
    (pc = "bisect" /\ pc' = "bisect") =>
       LET ev    == refine.events[refine.i]
           probe == bisectLog'[Len(bisectLog')].probes[refine.k + 1]
           mid   == probe.mid
           both  == HasPolygons(ev.target, mid) /\ HasPolygons(ev.collider, mid)
       IN  /\ refine'.k = refine.k + 1
           /\ 2 * mid = refine.lo + refine.hi
           /\ frameSetLog'[Len(frameSetLog')].frame * FrameUnit
                 + frameSetLog'[Len(frameSetLog')].subframe = mid
           /\ \/ /\ refine'.hi = mid /\ refine'.lo = refine.lo
                 /\ both
                 /\ probe.result = "in"
                 /\ testLog' # testLog
                 /\ testLog'[Len(testLog')].at = mid
                 /\ testLog'[Len(testLog')].gap <= refine.threshold
              \/ /\ refine'.lo = mid /\ refine'.hi = refine.hi
                 /\ \/ ~both /\ probe.result = "skip" /\ testLog' = testLog
                    \/ /\ both /\ probe.result = "out"
                       /\ testLog'[Len(testLog')].at = mid
                       /\ testLog'[Len(testLog')].gap > refine.threshold

\* C27: during _bisect_onset, after i iterations hi - lo = 2^-i and
\* frame_lo <= lo < hi <= frame_hi; every iteration probes the midpoint of
\* the interval and moves exactly one end to it: hi when both objects had
\* geometry there and the contact test was true, lo when geometry was
\* missing or the test was false.
C27_BisectionInterval == []BisectInterval /\ [][BisectMove]_vars

C27_Witness ==
    /\ pc = "bisect"
    /\ settings.substeps = 64
    /\ refine.k = 6
    /\ (refine.hi - refine.lo) * 64 = FrameUnit
    /\ \E k \in 1 .. 6 : bisectLog[Len(bisectLog)].probes[k].result = "skip"
    /\ \E k \in 1 .. 6 : bisectLog[Len(bisectLog)].probes[k].result = "in"
    /\ \E k \in 1 .. 6 : bisectLog[Len(bisectLog)].probes[k].result = "out"
    /\ (bisectLog[Len(bisectLog)].frame_hi - 1) * FrameUnit < refine.lo
    /\ refine.hi < bisectLog[Len(bisectLog)].frame_hi * FrameUnit

\* C28: pass 2 takes the coarse events of pass 1 as they are and appends
\* one refined event per coarse event, in the same order, with the same
\* target and collider and the same fields; what it returns is that list,
\* as long as the coarse list.  Without pass 2 the coarse list is returned.
C28_RefinementKeepsEvents ==
    /\ refine # NoRefine =>
          /\ settings.precision_mode
          /\ refine.events = passLog[Len(passLog)]
          /\ Len(refine.refined) = refine.i - 1
          /\ Len(refine.refined) <= Len(refine.events)
          /\ \A j \in DOMAIN refine.refined :
                /\ refine.refined[j].target = refine.events[j].target
                /\ refine.refined[j].collider = refine.events[j].collider
                /\ DOMAIN refine.refined[j] = DOMAIN refine.events[j]
          /\ pc = "returned" =>
                /\ collision_events = refine.refined
                /\ Len(collision_events) = Len(refine.events)
    /\ (pc = "returned" /\ refine = NoRefine) => collision_events = passLog[Len(passLog)]

C28_Witness ==
    /\ pc = "returned"
    /\ settings.precision_mode
    /\ Len(collision_events) = 3
    /\ collision_events[1].target = "Cube"
    /\ collision_events[2].target = "Ball"
    /\ collision_events[3].target = "Cube"
    /\ collision_events[2].frame < refine.events[2].frame
    /\ collision_events[2].position # refine.events[2].position
    /\ collision_events[3].frame < collision_events[2].frame

\* C29 (as claimed): whenever execute has returned CANCELLED the stored
\* events are those from before the call, also for a run with export_json
\* on and an empty output path.
C29_CancelledKeepsEvents ==
    (op.pc = "done" /\ op.result = "CANCELLED") => settings.events = op.events_before

\* C30 (as claimed): no event, coarse or refined, has a target that is also
\* its collider, also when a mesh object is in both collections.
C30_NoSelfEvent ==
    \A e \in AllEvents : e.target # e.collider

\* The frame_set calls of pass 2: bisection midpoints, refined onsets and
\* velocity back-samples
PassTwoCalls == { k \in DOMAIN frameSetLog :
                    frameSetLog[k].phase \in {"bisect", "refine", "velocity"} }

\* C31: every frame_set(frame, subframe) call of pass 2 passes an integer
\* frame and a subframe in [0, 1) whose sum is the intended time (for the
\* refined onsets and the back-samples: the event's time t and
\* max(t - 0.5 / substeps, frame_start)), whatever the sign of the frames
\* of the range.
C31_SubframeInUnitInterval ==
    /\ \A k \in PassTwoCalls :
          /\ frameSetLog[k].frame \in Int
          /\ frameSetLog[k].subframe >= 0
          /\ frameSetLog[k].subframe < FrameUnit
    /\ refine # NoRefine =>
          \A i \in DOMAIN refine.refined :
             /\ EventTimeOfCall(CallsOf("refine")[i]) = refine.refined[i].frame
             /\ EventTimeOfCall(CallsOf("velocity")[i]) =
                   BackSampleTime(refine.refined[i].frame)

\* The events of pair p that pass 2 has refined so far
RefinedOf(p) == IF refine = NoRefine THEN << >> ELSE EventsOf(refine.refined, p)

\* C32: two consecutive events of the same (target, collider) pair have
\* coarse onset frames at least 2 apart, a scan of N frames emits at most
\* ceil(N / 2) events per pair, and the times of the events of a pair,
\* refined ones included, are strictly increasing.
C32_OnsetsTwoApart ==
    \A p \in PairSet :
       LET coarse  == OnsetFrames(EventsOf(CoarseEvents, p))
           out     == EventsOf(collision_events, p)
           refined == RefinedOf(p)
       IN  /\ \A j \in 1 .. Len(coarse) - 1 : coarse[j + 1] - coarse[j] >= 2
           /\ 2 * Len(coarse) <= FrameCount + 1
           /\ \A j \in 1 .. Len(out) - 1 : out[j].frame < out[j + 1].frame
           /\ \A j \in 1 .. Len(refined) - 1 : refined[j].frame < refined[j + 1].frame

\* A precision scan that returned two refined events of one pair, the
\* second one at a sub-frame time
C32_Witness ==
    /\ pc = "returned"
    /\ settings.precision_mode
    /\ \E p \in PairSet :
          LET out == EventsOf(collision_events, p)
          IN  /\ Len(out) = 2
              /\ out[2].frame > out[1].frame + FrameUnit
              /\ out[2].frame < scene.frame_end * FrameUnit

\* The frame_set calls detect_collisions made during the scan
ScanCalls == SelectSeq(frameSetLog, LAMBDA c : c.phase # "restore")

\* C33: once COLLISION_OT_detect.execute has run a scan and ended, the
\* scene's current frame is the frame that was current before the call (at
\* subframe 0), in non-precision and in precision mode, whatever frames the
\* scan visited.
C33_FrameRestored ==
    (op.pc = "done" /\ ScanCalls # << >>) =>
        /\ scene.frame_current = op.original_frame
        /\ scene.subframe = 0
        /\ frameSetLog[1].phase = "pass1"
        /\ frameSetLog[Len(frameSetLog)].phase = "restore"

\* A precision run that returned FINISHED after a scan that ended on another
\* frame than the one the scene was at before the call
C33_Witness ==
    /\ op.pc = "done"
    /\ op.result = "FINISHED"
    /\ settings.precision_mode
    /\ ScanCalls # << >>
    /\ ScanCalls[Len(ScanCalls)].frame # op.original_frame
    /\ scene.frame_current = op.original_frame
    /\ op.original_frame = scene.frame_start

\* The frame ranges [start, end) of two strips share a frame
RangesMeet(a, b) ==
    \E f \in a.frame_final_start .. a.frame_final_end - 1 :
        b.frame_final_start <= f /\ f < b.frame_final_end

\* The strips placed before the r-th in start order that lie on channel c
\* and meet the r-th
Blockers(r, c) ==
    { q \in 1 .. r - 1 :
        /\ vse.strips[vse.sorted_strips[q]].channel = c
        /\ RangesMeet(vse.strips[vse.sorted_strips[q]], vse.strips[vse.sorted_strips[r]]) }

\* C34: after _separate_overlapping_strips(strips, base_channel) every strip
\* is on a channel >= base_channel, no two strips of one channel overlap in
\* their [start, end) frame ranges, every strip is on the lowest channel
\* >= base_channel free of overlaps with the strips placed before it in
\* start order, and with base_channel = max(existing channel) + 1 no new
\* strip is on a channel of a strip that was there before.
C34_StripsSeparated ==
    vse.pc = "placed" =>
        /\ \A k \in DOMAIN vse.strips : vse.strips[k].channel >= vse.base_channel
        /\ \A j, k \in DOMAIN vse.strips :
              (j # k /\ vse.strips[j].channel = vse.strips[k].channel) =>
                  ~RangesMeet(vse.strips[j], vse.strips[k])
        /\ \A r \in DOMAIN vse.sorted_strips :
              /\ r > 1 => vse.strips[vse.sorted_strips[r - 1]].frame_final_start
                             <= vse.strips[vse.sorted_strips[r]].frame_final_start
              /\ Blockers(r, vse.strips[vse.sorted_strips[r]].channel) = {}
              /\ \A c \in vse.base_channel .. vse.strips[vse.sorted_strips[r]].channel - 1 :
                    Blockers(r, c) # {}
        /\ \A k \in DOMAIN vse.strips : \A x \in DOMAIN vse.existing :
              vse.strips[k].channel > vse.existing[x]
        /\ { vse.sorted_strips[r] : r \in DOMAIN vse.sorted_strips } = DOMAIN vse.strips

\* Three strips added out of start order to an editor with strips on
\* channels 3 and 1: two of them overlap and are split over channels 4 and
\* 5, the third starts where the first one ends and shares channel 4
C34_Witness ==
    /\ vse.pc = "placed"
    /\ vse.existing = <<3, 1>>
    /\ vse.base_channel = 4
    /\ Len(vse.strips) = 3
    /\ vse.sorted_strips # <<1, 2, 3>>
    /\ \E j, k \in DOMAIN vse.strips :
          /\ vse.strips[j].channel = 4 /\ vse.strips[k].channel = 4
          /\ vse.strips[j].frame_final_end = vse.strips[k].frame_final_start
    /\ \E k \in DOMAIN vse.strips : vse.strips[k].channel = 5

\* The record an exported event stands for: its values, with the target as
\* active and the collider as passive
ItemOfEvent(e) ==
    [frame |-> e.frame, time |-> e.time, active |-> e.target, passive |-> e.collider,
     position |-> e.position, velocity |-> e.velocity,
     relative_velocity |-> e.relative_velocity, speed |-> e.speed]

\* The load operator has run on the file the detect operator exported
LoadedExport ==
    /\ loader.pc = "done"
    /\ op.exported # NoFile
    /\ loader.filepath = op.exported.path
    /\ loader.data = JsonDump(op.exported)

====
